---- MODULE Spec2Model ----
(***************************************************************************)
(* Model of gemini_automation/parallel.py: run_parallel fans an ordered    *)
(* list of prompts out over one worker coroutine per account through a     *)
(* shared asyncio.Queue and reassembles the outcomes by index.             *)
(*                                                                         *)
(* asyncio is cooperative: a coroutine runs without interruption between   *)
(* two awaits.  Each action below is one such uninterrupted stretch of     *)
(* run_parallel or of _account_worker.                                     *)
(***************************************************************************)
EXTENDS Integers, Sequences, FiniteSets, TLC

\* ------------------------------------------------------------------ bounds
MaxPrompts == 3
MaxAccounts == 2
MaxConcurrentArg == 2

\* ------------------------------------------------------------------ inputs
\* Python's None, for a result's account and a result's error.
None == "None"

\* Prompt texts.  The code never inspects a text, it only carries it; the batch
\* of length n is cat, dog, cat, ... so that from length 3 on a text repeats.
PromptText(i) == IF i % 2 = 0 THEN "cat" ELSE "dog"
PromptLists == {[k \in 1..n |-> PromptText(k - 1)] : n \in 0..MaxPrompts}

\* Account names a caller may pass: two that can be registered, one that never is.
AccountPool == {"a1", "a2", "ghost"}
SeqsUpTo(S, n) == UNION {[1..k -> S] : k \in 0..n}
AccountLists == SeqsUpTo(AccountPool, MaxAccounts) \cup {<<"all">>, <<"ALL">>}

\* accounts.json: the registry as AccountManager.load returns it, in file order.
Registries == {<<>>, <<"a1", "a2">>}

\* max_concurrent: int | None, as <<>> for None and <<k>> for the integer k.
NoLimit == <<>>
MaxConcurrentArgs == {NoLimit} \cup {<<k>> : k \in -1..MaxConcurrentArg}

\* ------------------------------------------------------------------ state
VARIABLES
    prompts,          \* argument: list[str]
    account_names,    \* argument: list[str]; read for the last time at line 162
    max_concurrent,   \* argument: int | None; read for the last time at line 158
    registry,         \* accounts.json, names in file order
    last_used,        \* names whose last_used stamp this call has written
    phase,            \* "call" | "running" | "returned" | "cancelled"
    active_accounts,  \* account_names[:effective_concurrent]
    queue,            \* asyncio.Queue of [idx, prompt]
    results,          \* dict[int, ParallelResult]: a function on the recorded indices
    pc,               \* per worker: "launch" | "loop" | "job" | "done"
    context,          \* per worker: "none" | "open" | "closed"
    page_alive,       \* per worker: the page of its context is still open
    cur,              \* per worker: the (idx, prompt) it holds
    ret,              \* the dict run_parallel returned, once phase = "returned"
    pull_log,         \* history: every successful get_nowait, [w, idx], in order
    submitted,        \* history, per worker: indices handed to generate, in order
    crashed,          \* history, per worker: "no" | "setup" | "job" | "cancelled", or
                      \* "close" for a task ended by an exception of context.close()
    lost_idx,         \* history, per worker: the index it held when it crashed, or -1
    \* --- one call of ImageGenerator.generate (generator.py)
    generation_timeout, \* config.generation_timeout, in milliseconds
    has_overlay,      \* self.overlay is not None
    session,          \* the session the job is given: "closed" (page or browser gone)
                      \* | "signed_out" (page open, no account signed in) | "ok"
    skip_requested,   \* the overlay's skip flag, as check_skip reads it
    gpc,              \* "idle" | "goto" | "textarea" | "activate" | "submit" | "loop"
                      \* | "sleep" | "grace" | "done" (returned) | "raised" (left by
                      \* an exception)
    elapsed,          \* seconds of polling sleep so far
    image_urls,       \* list[str] collected so far
    gen_result,       \* the GenerationResult returned, once gpc = "done"
    obs,              \* history: what the page showed at the last poll tick
    ticks,            \* history: poll ticks performed
    navigations,      \* history: page.goto calls
    activations,      \* history: _activate_create_images_tool calls
    submits,          \* history: Enter key presses
    preconditions,    \* history: "pending" | "held" | "failed"
    qualified_seen,   \* history: srcs the page showed on a visible element of >= 256 x 256
    skip_at,          \* history: the gpc at which the skip was requested, or "never"
    raised,           \* history: <<str(e)>> of the exception an awaited call raised, or <<>>
    trigger,          \* history: the srcs of the qualifying elements of the tick that
                      \* found the first image, in first-seen order
    resample,         \* history: the srcs of the qualifying elements of the re-sample
                      \* after the grace wait, in page order
    resample_lost,    \* history: the enumeration of the grace re-sample raised
    grace_waits,      \* history: grace waits performed
    \* --- one call of FlowImageGenerator.generate (flow_generator.py); it uses
    \* generation_timeout, gpc, elapsed, gen_result, ticks, submits, qualified_seen
    \* and raised as well, its positions being "f_project" | "f_existing" |
    \* "f_textarea" | "f_create" | "f_loop" | "f_sleep" | "f_sweep"
    images_per_prompt,   \* config.images_per_prompt
    project_initialized, \* self._project_initialized
    existing_urls,       \* set of the URLs, query stripped, on the page before the submit
    new_image_urls,      \* list[str] collected so far
    shown_before_submit, \* history: the URLs, query stripped, the page has shown up to
                         \* the click on Create
    page_text,           \* history: the page text _detect_content_rejection was run on
    job_pr,              \* the ParallelResult a worker has built for the job generate
                         \* returned (with the downloader's saved_files), NoPr before
    ui_queue,            \* MainScreen._queue: the QueueItems, as id and status
    is_processing,       \* MainScreen._is_processing
    ui_workers,          \* the _run_generation workers that have not ended
    ids_used,            \* how many task ids have been given out
    prev_setup,          \* history: "none" (first job of the generator), or how the job
                         \* before this one left the project: "failed" | "ok"
    \* --- one call of generate_batch (generator.py, flow_generator.py)
    batch_kind,       \* "gemini" (ImageGenerator) | "flow" (FlowImageGenerator)
    batch_prompts,    \* argument: list[str]
    batch_reference,  \* argument reference_image of the Flow batch is not None
    ref_uploaded,     \* local of the Flow batch
    batch_i,          \* the loop variable i of enumerate(prompts, 1)
    batch_results,    \* the local list results
    batch_pc,         \* "idle" | "guard" | "reattach" | "generate" | "delay"
                      \* | "returned" | "raised" (left by an exception)
    batch_alive,      \* the page is open
    generate_calls,   \* history: the i of every generate call, in order
    closed_at         \* history: the i at which the guard found the page closed, or 0

worker_vars == <<pc, context, page_alive, cur>>
hist_vars == <<pull_log, submitted, crashed, lost_idx>>
arg_vars == <<prompts, account_names, max_concurrent, registry>>
run_vars == <<prompts, account_names, max_concurrent, registry, last_used, phase,
              active_accounts, queue, results, pc, context, page_alive, cur,
              ret, pull_log, submitted, crashed, lost_idx>>
gen_vars == <<generation_timeout, has_overlay, session, skip_requested, gpc, elapsed, image_urls,
              gen_result, obs, ticks, navigations, activations, submits, preconditions,
              qualified_seen, skip_at, raised, trigger, resample, resample_lost, grace_waits>>
flow_hist == <<shown_before_submit, page_text, prev_setup>>
flow_vars == <<images_per_prompt, project_initialized, existing_urls, new_image_urls,
               shown_before_submit, page_text, prev_setup>>
batch_vars == <<batch_kind, batch_prompts, batch_reference, ref_uploaded, batch_i,
                batch_results, batch_pc, batch_alive, generate_calls, closed_at>>
job_vars == <<job_pr>>
tui_vars == <<ui_queue, is_processing, ui_workers, ids_used>>
vars == <<run_vars, gen_vars, flow_vars, batch_vars, job_vars, tui_vars>>

\* ------------------------------------------------------------------ helpers
Workers == 1..Len(active_accounts)
Indices == 0..(Len(prompts) - 1)
Range(s) == {s[k] : k \in DOMAIN s}
NoJob == [idx |-> -1, prompt |-> ""]

Min2(a, b) == IF a <= b THEN a ELSE b
Min3(a, b, c) == Min2(a, Min2(b, c))

\* s[:e] of Python: the first e elements, or all but the last -e when e < 0.
PySlice(s, e) ==
    LET n == IF e >= 0 THEN Min2(e, Len(s))
             ELSE IF Len(s) + e > 0 THEN Len(s) + e ELSE 0
    IN SubSeq(s, 1, n)

\* str.lower on the names of the pool.
Lower(name) == IF name = "ALL" THEN "all" ELSE name

\* AccountManager.get(name) is not None.
Registered(name) == name \in Range(registry)

\* Config.for_account(name).profile_dir
ProfileDir(name) == <<"gemini_profiles", name>>

\* x or y of Python for x: int | None (None and 0 are falsy).
PyOr(x, y) == IF x = NoLimit THEN y ELSE IF x[1] = 0 THEN y ELSE x[1]

\* ------------------------------------------------------------------ run_parallel
\* account_names == ["all"] (any case)
IsAll(names) == Len(names) = 1 /\ Lower(names[1]) = "all"

\* The names after "Resolve account names".
ResolvedNames == IF IsAll(account_names) THEN registry ELSE account_names

\* Mutant of MissingNames: only the first name of the list is looked up.
MissingNamesFirstOnly(names) == {k \in DOMAIN names : k = 1 /\ ~Registered(names[k])}

\* The first name of the list that mgr.get does not find, as the loop finds it.
MissingNames(names) == {k \in DOMAIN names : ~Registered(names[k])}
FirstMissing(names) ==
    names[CHOOSE k \in MissingNames(names) : \A j \in MissingNames(names) : k <= j]

\* The early returns of run_parallel.
ErrorReturn(msg) ==
    [error |-> msg, results |-> <<>>, total_prompts |-> Len(prompts),
     successful |-> 0, failed |-> Len(prompts)]

EffectiveConcurrent(names) ==
    Min3(PyOr(max_concurrent, Len(names)), Len(names), Len(prompts))

ActiveAccounts(names) == PySlice(names, EffectiveConcurrent(names))

\* The names update_last_used has stamped when the config loop ends.
Stamped(active) == Range(active)

\* queue.put_nowait((i, prompt)) for i, prompt in enumerate(prompts)
SeedQueue(ps) == [k \in 1..Len(ps) |-> [idx |-> k - 1, prompt |-> ps[k]]]

\* One create_task per name of active_accounts.
StartWorkers(active) ==
    /\ active_accounts' = active
    /\ pc' = [w \in 1..Len(active) |-> "launch"]
    /\ context' = [w \in 1..Len(active) |-> "none"]
    /\ page_alive' = [w \in 1..Len(active) |-> FALSE]
    /\ cur' = [w \in 1..Len(active) |-> NoJob]
    /\ submitted' = [w \in 1..Len(active) |-> <<>>]
    /\ crashed' = [w \in 1..Len(active) |-> "no"]
    /\ lost_idx' = [w \in 1..Len(active) |-> -1]

\* run_parallel up to its first await: resolve, validate, limit, stamp, seed, spawn.
\* account_names and max_concurrent are not read again once active_accounts is
\* computed: CallStart consumes them (they leave the state as <<>> and NoLimit).
CallNoAccounts ==
    /\ phase = "call"
    /\ IsAll(account_names) /\ registry = <<>>
    /\ ret' = ErrorReturn(<<"No accounts registered.">>)
    /\ phase' = "returned"
    /\ UNCHANGED <<gen_vars, flow_vars, batch_vars, job_vars, tui_vars, arg_vars, last_used, active_accounts, queue, results,
                   worker_vars, hist_vars>>

CallNotFound ==
    /\ phase = "call"
    /\ ~(IsAll(account_names) /\ registry = <<>>)
    /\ MissingNames(ResolvedNames) # {}
    /\ ret' = ErrorReturn(<<"not found", FirstMissing(ResolvedNames)>>)
    /\ phase' = "returned"
    /\ UNCHANGED <<gen_vars, flow_vars, batch_vars, job_vars, tui_vars, arg_vars, last_used, active_accounts, queue, results,
                   worker_vars, hist_vars>>

CallStart ==
    /\ phase = "call"
    /\ ~(IsAll(account_names) /\ registry = <<>>)
    /\ MissingNames(ResolvedNames) = {}
    /\ last_used' = Stamped(ActiveAccounts(ResolvedNames))
    /\ queue' = SeedQueue(prompts)
    /\ results' = <<>>
    /\ StartWorkers(ActiveAccounts(ResolvedNames))
    /\ phase' = "running"
    /\ account_names' = <<>>
    /\ max_concurrent' = NoLimit
    /\ UNCHANGED <<gen_vars, flow_vars, batch_vars, job_vars, tui_vars, prompts, registry, ret, pull_log>>

\* ------------------------------------------------------------------ _account_worker
\* launch_persistent_context and the page, generator and downloader set up.
Launch(w) ==
    /\ phase = "running" /\ pc[w] = "launch"
    /\ context' = [context EXCEPT ![w] = "open"]
    /\ page_alive' = [page_alive EXCEPT ![w] = TRUE]
    /\ pc' = [pc EXCEPT ![w] = "loop"]
    /\ UNCHANGED <<gen_vars, flow_vars, batch_vars, job_vars, tui_vars, arg_vars, last_used, phase, active_accounts, queue, results,
                   cur, ret, hist_vars>>

\* Mutants of FinallyClose: the context is left open; close() raises and the
\* exception gets out.
FinallySkipsClose(c) == [context |-> c, escaped |-> FALSE]
FinallyCloseRaises(c) ==
    [context |-> IF c = "open" THEN "closed" ELSE c, escaped |-> c = "open"]

\* finally: if context: try: await context.close() except Exception: pass.
\* "closed" says that close() was called on the context; whether or not the call
\* raised, nothing leaves the worker (escaped).
FinallyClose(c) ==
    [context |-> IF c = "open" THEN "closed" ELSE c, escaped |-> FALSE]

\* How the worker's task ended: as it would have, or by the exception of close().
TaskEnd(f, otherwise) == IF f.escaped THEN "close" ELSE otherwise

\* Mutant of SetupCrash: the exception is not contained and ends every worker.
SetupCrashEndsAll(w) ==
    /\ phase = "running" /\ pc[w] = "launch"
    /\ context' = [v \in Workers |-> IF context[v] = "open" THEN "closed" ELSE context[v]]
    /\ pc' = [v \in Workers |-> "done"]
    /\ crashed' = [crashed EXCEPT ![w] = "setup"]
    /\ cur' = [v \in Workers |-> NoJob]
    /\ UNCHANGED <<gen_vars, flow_vars, batch_vars, job_vars, tui_vars, arg_vars, last_used, phase, active_accounts, queue, results,
                   page_alive, ret, pull_log, submitted, lost_idx>>

\* The setup raises: in launch_persistent_context (context stays None) or after it
\* (context.pages, new_page: the finally block closes the context).  The except
\* clause logs, the task ends.
SetupCrash(w) ==
    /\ phase = "running" /\ pc[w] = "launch"
    /\ \E c \in {"none", "open"} :
          /\ context' = [context EXCEPT ![w] = FinallyClose(c).context]
          /\ crashed' = [crashed EXCEPT ![w] = TaskEnd(FinallyClose(c), "setup")]
    /\ pc' = [pc EXCEPT ![w] = "done"]
    /\ UNCHANGED <<gen_vars, flow_vars, batch_vars, job_vars, tui_vars, arg_vars, last_used, phase, active_accounts, queue, results,
                   page_alive, cur, ret, pull_log, submitted, lost_idx>>

\* Mutant of GetNowait: the entry is read and left on the queue.
GetNowaitPeek(q) == [item |-> Head(q), rest |-> q]

\* Mutant of GetNowait: the newest entry is taken instead of the oldest.
GetNowaitLifo(q) == [item |-> q[Len(q)], rest |-> SubSeq(q, 1, Len(q) - 1)]

\* queue.get_nowait() on a non-empty queue: the entry returned and the queue left.
\* It runs between two awaits, so no other worker runs inside it.
GetNowait(q) == [item |-> Head(q), rest |-> Tail(q)]

\* get_nowait returns an entry; the worker goes to sleep before generating.
Pull(w) ==
    /\ phase = "running" /\ pc[w] = "loop"
    /\ queue # <<>>
    /\ cur' = [cur EXCEPT ![w] = GetNowait(queue).item]
    /\ queue' = GetNowait(queue).rest
    /\ pull_log' = Append(pull_log, [w |-> w, idx |-> GetNowait(queue).item.idx])
    /\ pc' = [pc EXCEPT ![w] = "job"]
    /\ UNCHANGED <<gen_vars, flow_vars, batch_vars, job_vars, tui_vars, arg_vars, last_used, phase, active_accounts, results, context,
                   page_alive, ret, submitted, crashed, lost_idx>>

\* Mutant of QueueEmptyExit: a blocking get, the worker waits for an entry.
QueueEmptyWaits(w) ==
    /\ phase = "running" /\ pc[w] = "loop"
    /\ queue = <<>>
    /\ UNCHANGED vars

\* get_nowait raises QueueEmpty: break, then the finally block closes the context.
QueueEmptyExit(w) ==
    /\ phase = "running" /\ pc[w] = "loop"
    /\ queue = <<>>
    /\ pc' = [pc EXCEPT ![w] = "done"]
    /\ context' = [context EXCEPT ![w] = FinallyClose(context[w]).context]
    /\ crashed' = [crashed EXCEPT ![w] = TaskEnd(FinallyClose(context[w]), @)]
    /\ UNCHANGED <<gen_vars, flow_vars, batch_vars, job_vars, tui_vars, arg_vars, last_used, phase, active_accounts, queue, results,
                   page_alive, cur, ret, pull_log, submitted, lost_idx>>

\* ImageGenerator.generate as the worker sees it: it always returns a result.  On a
\* live page the job succeeds or fails for its own reasons (precondition, rejection,
\* timeout, unexpected); on a dead page it fails with the session lost (the liveness
\* guard, the failed enumeration, or goto raising into the catch-all).
GenerateOutcomes(alive) ==
    IF alive
    THEN {[success |-> TRUE, error |-> None], [success |-> FALSE, error |-> "JobFailed"]}
    ELSE {[success |-> FALSE, error |-> "SessionLost"]}

\* ParallelResult(prompt, account_name, gen_result...)
MakeResult(w, g) ==
    [prompt |-> cur[w].prompt, account |-> active_accounts[w],
     success |-> g.success, error |-> g.error]

\* Mutant of StoreResult: the map is replaced by one holding the new outcome only.
StoreResultAlone(res, idx, pr) == (idx :> pr)

\* results[idx] = pr
StoreResult(res, idx, pr) == (idx :> pr) @@ res

\* Mutant of Process: the worker goes back to the queue with the outcome of its
\* job not yet recorded.
ProcessRecordsLater(w) ==
    /\ phase = "running" /\ pc[w] = "job"
    /\ pc' = [pc EXCEPT ![w] = "loop"]
    /\ submitted' = [submitted EXCEPT ![w] = Append(@, cur[w].idx)]
    /\ cur' = [cur EXCEPT ![w] = NoJob]
    /\ UNCHANGED <<gen_vars, flow_vars, batch_vars, job_vars, tui_vars, arg_vars, last_used, phase, active_accounts, queue, context,
                   results, page_alive, ret, pull_log, crashed, lost_idx>>

\* Mutant of Process: a failed job ends the worker.
ProcessStopsOnFailure(w) ==
    /\ phase = "running" /\ pc[w] = "job"
    /\ \E alive \in (IF page_alive[w] THEN BOOLEAN ELSE {FALSE}) :
          /\ page_alive' = [page_alive EXCEPT ![w] = alive]
          /\ \E g \in GenerateOutcomes(alive) :
                /\ results' = StoreResult(results, cur[w].idx, MakeResult(w, g))
                /\ pc' = [pc EXCEPT ![w] = IF g.success THEN "loop" ELSE "done"]
                /\ context' = [context EXCEPT ![w] = IF g.success THEN @ ELSE "closed"]
    /\ submitted' = [submitted EXCEPT ![w] = Append(@, cur[w].idx)]
    /\ cur' = [cur EXCEPT ![w] = NoJob]
    /\ UNCHANGED <<gen_vars, flow_vars, batch_vars, job_vars, tui_vars, arg_vars, last_used, phase, active_accounts, queue,
                   ret, pull_log, crashed, lost_idx>>

\* The rest of the loop body for the entry held: the sleep ends, generate returns,
\* the images of a success are downloaded, results[idx] = pr, queue.task_done(),
\* and the worker is back at the top of while True whatever the result was.
\* Between its awaits the worker touches nothing another worker reads, so the
\* stretch is one step.  The worker's browser or page may have gone away since its
\* last job (the environment); once gone it stays gone.
Process(w) ==
    /\ phase = "running" /\ pc[w] = "job"
    /\ \E alive \in (IF page_alive[w] THEN BOOLEAN ELSE {FALSE}) :
          /\ page_alive' = [page_alive EXCEPT ![w] = alive]
          /\ \E g \in GenerateOutcomes(alive) :
                results' = StoreResult(results, cur[w].idx, MakeResult(w, g))
    /\ pc' = [pc EXCEPT ![w] = "loop"]
    /\ submitted' = [submitted EXCEPT ![w] = Append(@, cur[w].idx)]
    /\ cur' = [cur EXCEPT ![w] = NoJob]
    /\ UNCHANGED <<gen_vars, flow_vars, batch_vars, job_vars, tui_vars, arg_vars, last_used, phase, active_accounts, queue, context,
                   ret, pull_log, crashed, lost_idx>>

\* Mutant of QueueAfterCrash: the entry held goes back on the queue.
QueueAfterCrashRequeue(q, job) == Append(q, job)

\* The queue after a worker died holding job: "drain remaining items back to
\* queue? No -- just log."
QueueAfterCrash(q, job) == q

\* Mutant of CrashMidJob: the dead worker's place is given to another registered
\* account, which is launched to go on with the queue.
CrashMidJobRelaunch(w) ==
    /\ phase = "running" /\ pc[w] = "job"
    /\ \E n \in Range(registry) \ {active_accounts[w]} :
          active_accounts' = [active_accounts EXCEPT ![w] = n]
    /\ queue' = QueueAfterCrash(queue, cur[w])
    /\ lost_idx' = [lost_idx EXCEPT ![w] = cur[w].idx]
    /\ context' = [context EXCEPT ![w] = "none"]
    /\ cur' = [cur EXCEPT ![w] = NoJob]
    /\ pc' = [pc EXCEPT ![w] = "launch"]
    /\ UNCHANGED <<gen_vars, flow_vars, batch_vars, job_vars, tui_vars, arg_vars, last_used, phase, results,
                   page_alive, ret, pull_log, submitted, crashed>>

\* An exception escapes the loop body while the worker holds an entry (a print that
\* raises, say): the except clause logs, the finally block closes the context.
CrashMidJob(w) ==
    /\ phase = "running" /\ pc[w] = "job"
    /\ queue' = QueueAfterCrash(queue, cur[w])
    /\ lost_idx' = [lost_idx EXCEPT ![w] = cur[w].idx]
    /\ context' = [context EXCEPT ![w] = FinallyClose(context[w]).context]
    /\ crashed' = [crashed EXCEPT ![w] = TaskEnd(FinallyClose(context[w]), "job")]
    /\ cur' = [cur EXCEPT ![w] = NoJob]
    /\ pc' = [pc EXCEPT ![w] = "done"]
    /\ UNCHANGED <<gen_vars, flow_vars, batch_vars, job_vars, tui_vars, arg_vars, last_used, phase, active_accounts, results,
                   page_alive, ret, pull_log, submitted>>

\* The task awaiting run_parallel is cancelled while gather waits: gather cancels
\* every worker task that is not done, CancelledError is raised at the await each
\* one is suspended in (a BaseException: "except Exception" does not catch it), its
\* finally block closes the context, and when all tasks are done the
\* CancelledError leaves run_parallel, which returns nothing.
CancelCall ==
    /\ phase = "running"
    /\ phase' = "cancelled"
    /\ context' = [w \in Workers |->
          IF pc[w] = "done" THEN context[w] ELSE FinallyClose(context[w]).context]
    /\ crashed' = [w \in Workers |->
          IF pc[w] = "done" THEN crashed[w]
          ELSE TaskEnd(FinallyClose(context[w]), "cancelled")]
    /\ pc' = [w \in Workers |-> "done"]
    /\ cur' = [w \in Workers |-> NoJob]
    /\ UNCHANGED <<gen_vars, flow_vars, batch_vars, job_vars, tui_vars, arg_vars, last_used, active_accounts, queue, results,
                   page_alive, ret, pull_log, submitted, lost_idx>>

\* ------------------------------------------------------------------ the aggregate
NotProcessed == "Prompt was not processed (all workers failed)"

\* One entry of all_results.
ResultEntry(i) ==
    IF i \in DOMAIN results
    THEN [prompt |-> results[i].prompt, account |-> results[i].account,
          success |-> results[i].success, error |-> results[i].error]
    ELSE [prompt |-> prompts[i + 1], account |-> None,
          success |-> FALSE, error |-> NotProcessed]

\* Mutant of AllResults: one entry per recorded result instead of one per prompt.
AllResultsRecordedOnly == [k \in 1..Cardinality(DOMAIN results) |-> ResultEntry(k - 1)]

AllResults == [k \in 1..Len(prompts) |-> ResultEntry(k - 1)]

Successful(all) == Cardinality({k \in DOMAIN all : all[k].success})

\* Mutant of Failed: the prompts no worker processed are not counted.
FailedProcessedOnly(all) ==
    Cardinality({k \in DOMAIN all : ~all[k].success /\ all[k].account # None})

Failed(all) == Len(all) - Successful(all)

ReturnValue ==
    [results |-> AllResults, total_prompts |-> Len(prompts),
     successful |-> Successful(AllResults), failed |-> Failed(AllResults),
     accounts_used |-> active_accounts]

\* Mutant of Join: gather returns as soon as one task is done.
JoinOnFirstDone ==
    /\ phase = "running"
    /\ \E w \in Workers : pc[w] = "done"
    /\ ret' = ReturnValue
    /\ phase' = "returned"
    /\ UNCHANGED <<gen_vars, flow_vars, batch_vars, job_vars, tui_vars, arg_vars, last_used, active_accounts, queue, results,
                   worker_vars, hist_vars>>

\* gather returns once every task is done; the ordered list is built and returned.
Join ==
    /\ phase = "running"
    /\ \A w \in Workers : pc[w] = "done"
    /\ ret' = ReturnValue
    /\ phase' = "returned"
    /\ UNCHANGED <<gen_vars, flow_vars, batch_vars, job_vars, tui_vars, arg_vars, last_used, active_accounts, queue, results,
                   worker_vars, hist_vars>>

\* ------------------------------------------------------------------ generate
\* ImageGenerator.generate (generator.py): one job in one session.  The inputs
\* are the configured timeout, whether an overlay is attached, and what the page
\* shows each time the code looks at it.
MaxTimeoutS == 11
MaxElements == 2

min_dim == 256
poll_interval == 5

\* config.generation_timeout in milliseconds: whole seconds from below zero up,
\* so that zero, multiples of the poll interval and values between them occur.
GenerationTimeouts == {1000 * t : t \in -1..MaxTimeoutS}
timeout_s == generation_timeout \div 1000

\* An <img> element as the code reads it: is_visible(), naturalWidth/naturalHeight,
\* the src attribute ("" for a missing or empty one); a detached element makes
\* every call on it raise.  One element per way through the loop body: detached,
\* hidden, too narrow, too short, without src, and accepted.
SrcValues == {"", "u1", "u2"}
Dims == {min_dim - 1, min_dim}
Elements ==
    {e \in [src : SrcValues, visible : BOOLEAN, w : Dims, h : Dims, detached : BOOLEAN] :
        /\ e.detached => (e.src = "" /\ ~e.visible)
        /\ ~e.visible => (e.w = min_dim /\ e.h = min_dim)
        /\ e.src = "" => (e.w = min_dim /\ e.h = min_dim)
        /\ (~e.detached /\ e.src = "") => e.visible
        /\ e.w = min_dim \/ e.h = min_dim}
Samples == SeqsUpTo(Elements, MaxElements)

\* The session a job may be given.
Sessions == {"closed", "signed_out", "ok"}

\* GenerationResult(prompt, image_urls=[], success=False, error=None); the error
\* is a tuple of the message's parts, the empty tuple for None.
NoError == <<>>
Failure(msg) == [success |-> FALSE, error |-> msg, image_urls |-> <<>>]
Success(urls) == [success |-> TRUE, error |-> NoError, image_urls |-> urls]
NoResult == [success |-> FALSE, error |-> NoError, image_urls |-> <<>>]

TextareaNotFound == <<"Textarea not found - may not be logged in">>
ToolErrors == {"Tools button not found on page",
               "Create images option not found in Tools menu"}
ActivationFailed(tool_error) == <<"Failed to activate image tool: ", tool_error>>
SkippedByUser == <<"Skipped by user">>
PageClosed == <<"Browser page was closed during generation">>
LostConnection == <<"Lost connection to browser during generation">>
TextOnly == <<"Gemini responded with text only (likely refused due to content policy)">>
TimedOut(t) == <<"Image generation timed out after ", ToString(t), "s">>
\* str(e) of an exception caught by the outer handler.
ExceptionMessages == {"", "Target page, context or browser has been closed"}
Unexpected(m) == <<m>>

\* Mutant of BigEnough: one dimension at the threshold is enough.
BigEnoughEither(el) == el.w >= min_dim \/ el.h >= min_dim

\* dims.get("w", 0) >= min_dim and dims.get("h", 0) >= min_dim
BigEnough(el) == el.w >= min_dim /\ el.h >= min_dim

\* Mutant of Accepts: a src already in the list is added again.
AcceptsRepeats(urls, el) == ~el.detached /\ el.visible /\ BigEnough(el) /\ el.src # ""

\* The body of "for el in elements": what one element adds to the list.
Accepts(urls, el) ==
    /\ ~el.detached
    /\ el.visible
    /\ BigEnough(el)
    /\ el.src # ""
    /\ el.src \notin Range(urls)

RECURSIVE CollectImages(_, _)
CollectImages(urls, elements) ==
    IF elements = <<>> THEN urls
    ELSE CollectImages(IF Accepts(urls, Head(elements))
                       THEN Append(urls, Head(elements).src) ELSE urls,
                       Tail(elements))

\* History only: the srcs a sample showed on a visible element of at least
\* 256 x 256, read off the sample itself.
ShownQualified(elements) ==
    {elements[k].src : k \in {j \in DOMAIN elements :
        /\ ~elements[j].detached /\ elements[j].visible
        /\ elements[j].w >= 256 /\ elements[j].h >= 256 /\ elements[j].src # ""}}

\* History only: the srcs of the elements of a sample that are visible, at least
\* 256 x 256 and have a src, in page order, repeats included.
Qualifies(el) == ~el.detached /\ el.visible /\ el.w >= 256 /\ el.h >= 256 /\ el.src # ""
QualifiedSeq(elements) ==
    LET q == SelectSeq(elements, Qualifies) IN [k \in DOMAIN q |-> q[k].src]

\* A list without its repeats, each element at its first place.
RECURSIVE Dedup(_, _)
Dedup(seen, s) ==
    IF s = <<>> THEN seen
    ELSE Dedup(IF Head(s) \in Range(seen) THEN seen ELSE Append(seen, Head(s)), Tail(s))
FirstSeen(s) == Dedup(<<>>, s)

\* self.overlay.check_skip(): whether the user has asked to skip this job.
CheckSkip == skip_requested

\* while elapsed < timeout_s
LoopGuardInclusive == elapsed <= timeout_s      \* mutant of LoopGuard
LoopGuard == elapsed < timeout_s

\* Mutant of SessionCheck: a failed enumeration is taken for an empty sample.
SessionCheckLenient(alive, enumerated) == IF ~alive THEN "closed" ELSE "ok"

\* The two session guards of a tick, in the code's order: _is_page_alive(),
\* then image_locator.all() raising.
SessionCheck(alive, enumerated) ==
    IF ~alive THEN "closed" ELSE IF ~enumerated THEN "lost" ELSE "ok"

\* Mutants of AfterSample: the text-only test comes first; it is never made.
AfterSampleRejectFirst(urls, complete) ==
    IF complete THEN "rejected" ELSE IF urls # <<>> THEN "grace" ELSE "poll"
AfterSampleNoReject(urls, complete) == IF urls # <<>> THEN "grace" ELSE "poll"

\* What a tick does once the sample is collected: "if image_urls" is tested
\* before "if response_complete and not image_urls".
AfterSample(urls, complete) ==
    IF urls # <<>> THEN "grace" ELSE IF complete THEN "rejected" ELSE "poll"

NoObs == [alive |-> TRUE, complete |-> FALSE, enumerated |-> TRUE, qualifying |-> FALSE]

cfg_vars == <<generation_timeout, has_overlay, session>>
grace_vars == <<trigger, resample, resample_lost, grace_waits>>
count_vars == <<ticks, navigations, activations, submits>>

\* The visible text of the page as _detect_content_rejection meets it: whether
\* page.evaluate returns it (it raises on a closed page), whether one of the
\* rejection phrases lies within its first 5000 characters, and whether one lies in
\* the rest of it.
PageTexts ==
    {t \in [readable : BOOLEAN, first_5000 : BOOLEAN, rest : BOOLEAN] :
        ~t.readable => (~t.first_5000 /\ ~t.rest)}
NoText == [readable |-> FALSE, first_5000 |-> FALSE, rest |-> FALSE]

\* No FlowImageGenerator is in use.
FlowIdle ==
    /\ images_per_prompt = 0 /\ project_initialized = FALSE
    /\ existing_urls = {} /\ new_image_urls = <<>>
    /\ shown_before_submit = {} /\ page_text = NoText /\ prev_setup = "none"

\* No generate_batch call is under way.
BatchIdle ==
    /\ batch_kind = "gemini" /\ batch_prompts = <<>> /\ batch_reference = FALSE
    /\ ref_uploaded = FALSE /\ batch_i = 0 /\ batch_results = <<>>
    /\ batch_pc = "idle" /\ batch_alive = FALSE /\ generate_calls = <<>> /\ closed_at = 0

\* No MainScreen is open.
TuiIdle == ui_queue = <<>> /\ is_processing = FALSE /\ ui_workers = {} /\ ids_used = 0

\* No outcome of a single job is being built.
NoPr == [success |-> FALSE, error |-> <<>>, image_urls |-> <<>>, saved_files |-> <<>>]
JobIdle == job_pr = NoPr

\* No generate call is under way (the state of these variables in Spec).
GenIdle ==
    /\ FlowIdle
    /\ generation_timeout = 0 /\ has_overlay = FALSE /\ skip_requested = FALSE
    /\ session = "ok"
    /\ gpc = "idle" /\ elapsed = 0 /\ image_urls = <<>> /\ gen_result = NoResult
    /\ obs = NoObs /\ ticks = 0 /\ navigations = 0 /\ activations = 0 /\ submits = 0
    /\ preconditions = "pending" /\ qualified_seen = {} /\ skip_at = "never"
    /\ raised = <<>>
    /\ trigger = <<>> /\ resample = <<>> /\ resample_lost = FALSE /\ grace_waits = 0

\* return GenerationResult(...)
Return(r) == gen_result' = r /\ gpc' = "done"

\* page.goto(gemini_url) and the overlay's "Loading page..." update.  On a closed
\* page goto does not return: it raises (Raise).
Goto ==
    /\ gpc = "goto"
    /\ session # "closed"
    /\ navigations' = navigations + 1
    /\ gpc' = "textarea"
    /\ UNCHANGED <<run_vars, batch_vars, job_vars, tui_vars, grace_vars, flow_vars, cfg_vars, raised, skip_requested, elapsed, image_urls, gen_result,
                   obs, ticks, activations, submits, preconditions, qualified_seen,
                   skip_at>>

\* Mutant of WaitTextarea: the job goes on whether or not the textarea shows.
WaitTextareaUnchecked ==
    /\ gpc = "textarea"
    /\ gpc' = "activate"
    /\ UNCHANGED <<run_vars, batch_vars, job_vars, tui_vars, grace_vars, flow_vars, cfg_vars, raised, skip_requested, elapsed, image_urls, obs,
                   count_vars, qualified_seen, skip_at, gen_result, preconditions>>

\* textarea.wait_for(visible, 30 s); on success the promo dialogs are dismissed
\* (every exception of that is swallowed).  The prompt textarea is what a signed-in
\* account is recognised by ("may not be logged in"): a signed-out page never shows
\* it, a signed-in one may fail to show it in time.
WaitTextarea ==
    /\ gpc = "textarea"
    /\ \E visible \in (IF session = "ok" THEN BOOLEAN ELSE {FALSE}) :
          IF visible
          THEN gpc' = "activate" /\ UNCHANGED <<gen_result, preconditions>>
          ELSE Return(Failure(TextareaNotFound)) /\ preconditions' = "failed"
    /\ UNCHANGED <<run_vars, batch_vars, job_vars, tui_vars, grace_vars, flow_vars, cfg_vars, raised, skip_requested, elapsed, image_urls, obs,
                   count_vars, qualified_seen, skip_at>>

\* _activate_create_images_tool(): None, or one of its two error strings.
ActivateTool ==
    /\ gpc = "activate"
    /\ activations' = activations + 1
    /\ \E tool_error \in {None} \cup ToolErrors :
          IF tool_error = None
          THEN gpc' = "submit" /\ preconditions' = "held" /\ UNCHANGED gen_result
          ELSE Return(Failure(ActivationFailed(tool_error))) /\ preconditions' = "failed"
    /\ UNCHANGED <<run_vars, batch_vars, job_vars, tui_vars, grace_vars, flow_vars, cfg_vars, raised, skip_requested, elapsed, image_urls, obs,
                   ticks, navigations, submits, qualified_seen, skip_at>>

\* Mutant of Submit: the Enter key is pressed again instead of going on to poll.
SubmitRetries ==
    /\ gpc = "submit" /\ submits < 2
    /\ submits' = submits + 1
    /\ UNCHANGED <<run_vars, batch_vars, job_vars, tui_vars, grace_vars, flow_vars, cfg_vars, raised, skip_requested, gpc, elapsed, image_urls,
                   gen_result, obs, ticks, navigations, activations, preconditions,
                   qualified_seen, skip_at>>

\* textarea.click(), fill(prompt), sleep(0.5), keyboard.press("Enter"); then the
\* polling locals are set up.
Submit ==
    /\ gpc = "submit"
    /\ submits' = submits + 1
    /\ elapsed' = 0
    /\ image_urls' = <<>>
    /\ gpc' = "loop"
    /\ UNCHANGED <<run_vars, batch_vars, job_vars, tui_vars, grace_vars, flow_vars, cfg_vars, raised, skip_requested, gen_result, obs, ticks,
                   navigations, activations, preconditions, qualified_seen, skip_at>>

\* The loop test and the skip check before the sleep; when the test fails the
\* code falls through to the returns after the loop.
LoopTop ==
    /\ gpc = "loop"
    /\ IF LoopGuard
       THEN IF has_overlay /\ CheckSkip
            THEN Return(Failure(SkippedByUser))
            ELSE gpc' = "sleep" /\ UNCHANGED gen_result
       ELSE IF image_urls = <<>>
            THEN Return(Failure(TimedOut(timeout_s)))
            ELSE Return(Success(image_urls))
    /\ UNCHANGED <<run_vars, batch_vars, job_vars, tui_vars, grace_vars, flow_vars, cfg_vars, raised, skip_requested, elapsed, image_urls, obs,
                   count_vars, preconditions, qualified_seen, skip_at>>

\* One poll tick after the skip check: sleep(poll_interval), the page guard, the
\* response_complete probe (an exception there reads as not complete), the
\* enumeration of the images, the collection loop and the decision.
PollTick ==
    /\ gpc = "sleep"
    /\ elapsed' = elapsed + poll_interval
    /\ ticks' = ticks + 1
    /\ \E alive \in BOOLEAN, complete \in BOOLEAN, enumerated \in BOOLEAN :
       \E elements \in (IF alive /\ enumerated THEN Samples ELSE {<<>>}) :
          /\ obs' = [alive |-> alive, complete |-> complete, enumerated |-> enumerated,
                     qualifying |-> ShownQualified(elements) # {}]
          /\ qualified_seen' = qualified_seen \cup ShownQualified(elements)
          /\ IF SessionCheck(alive, enumerated) = "closed"
             THEN Return(Failure(PageClosed)) /\ UNCHANGED <<image_urls, trigger>>
             ELSE IF SessionCheck(alive, enumerated) = "lost"
             THEN Return(Failure(LostConnection)) /\ UNCHANGED <<image_urls, trigger>>
             ELSE /\ image_urls' = CollectImages(image_urls, elements)
                  /\ IF AfterSample(image_urls', complete) = "grace"
                     THEN /\ gpc' = "grace" /\ trigger' = FirstSeen(QualifiedSeq(elements))
                          /\ UNCHANGED gen_result
                     ELSE IF AfterSample(image_urls', complete) = "rejected"
                     THEN Return(Failure(TextOnly)) /\ UNCHANGED trigger
                     ELSE gpc' = "loop" /\ UNCHANGED <<gen_result, trigger>>
    /\ UNCHANGED <<run_vars, batch_vars, job_vars, tui_vars, resample, resample_lost, grace_waits, flow_vars, cfg_vars, raised, skip_requested, navigations, activations,
                   submits, preconditions, skip_at>>

\* Mutant of GraceResample: a failed enumeration ends the job as in the first
\* sample of a tick, with the lost-connection Failure.
GraceResampleLost ==
    /\ gpc = "grace"
    /\ \E enumerated \in BOOLEAN :
       \E elements \in (IF enumerated THEN Samples ELSE {<<>>}) :
          /\ image_urls' = CollectImages(image_urls, elements)
          /\ qualified_seen' = qualified_seen \cup ShownQualified(elements)
          /\ resample' = QualifiedSeq(elements)
          /\ resample_lost' = ~enumerated
          /\ IF ~enumerated
             THEN Return(Failure(LostConnection))
             ELSE IF image_urls' = <<>>
             THEN Return(Failure(TimedOut(timeout_s)))
             ELSE Return(Success(image_urls'))
    /\ grace_waits' = grace_waits + 1
    /\ UNCHANGED <<run_vars, batch_vars, job_vars, tui_vars, trigger, flow_vars, cfg_vars, raised, skip_requested, elapsed, obs, count_vars,
                   preconditions, skip_at>>

\* "if image_urls": sleep(3), enumerate again (a failure of that only breaks),
\* collect again, break, and return the list after the loop.
GraceResample ==
    /\ gpc = "grace"
    /\ \E enumerated \in BOOLEAN :
       \E elements \in (IF enumerated THEN Samples ELSE {<<>>}) :
          /\ image_urls' = CollectImages(image_urls, elements)
          /\ qualified_seen' = qualified_seen \cup ShownQualified(elements)
          /\ resample' = QualifiedSeq(elements)
          /\ resample_lost' = ~enumerated
          /\ IF image_urls' = <<>>
             THEN Return(Failure(TimedOut(timeout_s)))
             ELSE Return(Success(image_urls'))
    /\ grace_waits' = grace_waits + 1
    /\ UNCHANGED <<run_vars, batch_vars, job_vars, tui_vars, trigger, flow_vars, cfg_vars, raised, skip_requested, elapsed, obs, count_vars,
                   preconditions, skip_at>>

\* The steps at which an awaited call outside an inner try can raise: goto, the
\* clicks of the tool activation, click/fill/press of the submit, and, with an
\* overlay attached, its update calls and the check_skip of an iteration.  In
\* FlowImageGenerator.generate: the project setup, the reference upload, the two
\* fills of the textarea and every enumeration of the images.
CanRaise ==
    \/ gpc \in {"goto", "activate", "submit"}
    \/ gpc \in {"f_reference", "f_existing", "f_textarea", "f_sleep", "f_sweep"}
    \/ gpc = "f_project" /\ ~project_initialized
    \/ has_overlay /\ gpc \in {"textarea", "sleep"}
    \/ has_overlay /\ gpc = "loop" /\ LoopGuard

\* Mutant of Caught: the handler lets the exception out.
CaughtReraises(m) == [exit |-> "raised", result |-> NoResult]

\* except Exception as e: return GenerationResult(success=False, error=str(e))
Caught(m) == [exit |-> "done", result |-> Failure(Unexpected(m))]

\* An awaited call raises an Exception; the outer handler deals with it.
Raise ==
    /\ CanRaise
    /\ \E m \in ExceptionMessages :
          /\ raised' = <<m>>
          /\ gpc' = Caught(m).exit
          /\ gen_result' = Caught(m).result
    /\ navigations' = IF gpc \in {"goto", "f_project"} THEN navigations + 1 ELSE navigations
    /\ activations' = IF gpc = "activate" THEN activations + 1 ELSE activations
    /\ UNCHANGED <<run_vars, batch_vars, job_vars, tui_vars, grace_vars, flow_vars, cfg_vars, skip_requested, elapsed, image_urls, obs, ticks,
                   submits, preconditions, qualified_seen, skip_at>>

\* The user presses the overlay's skip button while the job runs.
RequestSkip ==
    /\ has_overlay /\ ~skip_requested
    /\ gpc \notin {"idle", "done", "raised"}
    /\ skip_requested' = TRUE
    /\ skip_at' = gpc
    /\ UNCHANGED <<run_vars, batch_vars, job_vars, tui_vars, grace_vars, flow_vars, cfg_vars, raised, gpc, elapsed, image_urls, gen_result, obs,
                   count_vars, preconditions, qualified_seen>>

\* ------------------------------------------------------------------ specification
Init ==
    /\ prompts \in PromptLists
    /\ account_names \in AccountLists
    /\ max_concurrent \in MaxConcurrentArgs
    /\ registry \in Registries
    /\ last_used = {}
    /\ phase = "call"
    /\ active_accounts = <<>>
    /\ queue = <<>>
    /\ results = <<>>
    /\ pc = <<>> /\ context = <<>> /\ page_alive = <<>> /\ cur = <<>>
    /\ ret = [total_prompts |-> 0]
    /\ pull_log = <<>>
    /\ submitted = <<>> /\ crashed = <<>> /\ lost_idx = <<>>
    /\ GenIdle
    /\ BatchIdle
    /\ JobIdle
    /\ TuiIdle

Next ==
    \/ CallNoAccounts
    \/ CallNotFound
    \/ CallStart
    \/ \E w \in Workers : Launch(w)
    \/ \E w \in Workers : SetupCrash(w)
    \/ \E w \in Workers : Pull(w)
    \/ \E w \in Workers : QueueEmptyExit(w)
    \/ \E w \in Workers : Process(w)
    \/ \E w \in Workers : CrashMidJob(w)
    \/ Join

Spec == Init /\ [][Next]_vars

\* The calls that pass the validation and leave at least one requested account
\* outside active_accounts = account_names[:effective_concurrent].
IdleAccountInit ==
    /\ Init
    /\ ~(IsAll(account_names) /\ registry = <<>>)
    /\ MissingNames(ResolvedNames) = {}
    /\ Range(ResolvedNames) \ Range(ActiveAccounts(ResolvedNames)) # {}

IdleAccountNext ==
    \/ CallStart
    \/ \E w \in Workers : Launch(w)
    \/ \E w \in Workers : SetupCrash(w)
    \/ \E w \in Workers : Pull(w)
    \/ \E w \in Workers : QueueEmptyExit(w)
    \/ \E w \in Workers : Process(w)
    \/ \E w \in Workers : CrashMidJob(w)
    \/ Join

IdleAccountSpec == IdleAccountInit /\ [][IdleAccountNext]_vars

\* The event loop runs every task that is ready: run_parallel up to its gather, a
\* worker whose awaited call (launch, sleep, generate, download, close) has
\* completed, run_parallel again once gather is done.  Each of these calls is
\* taken to complete or raise.  The calls are those that name no account twice.
FairInit ==
    /\ Init
    /\ \A j, k \in DOMAIN account_names : account_names[j] = account_names[k] => j = k
FairSpec == FairInit /\ [][Next]_vars /\ WF_vars(Next)

\* run_parallel with a caller that may cancel it.
CancelNext == Next \/ CancelCall
CancelSpec == Init /\ [][CancelNext]_vars

\* ------------------------------------------------------------------ generate: specification
\* No run_parallel call is under way (the state of its variables in GenSpec).
RunIdle ==
    /\ prompts = <<>> /\ account_names = <<>> /\ max_concurrent = NoLimit
    /\ registry = <<>> /\ last_used = {} /\ phase = "idle" /\ active_accounts = <<>>
    /\ queue = <<>> /\ results = <<>>
    /\ pc = <<>> /\ context = <<>> /\ page_alive = <<>> /\ cur = <<>>
    /\ ret = [total_prompts |-> 0]
    /\ pull_log = <<>> /\ submitted = <<>> /\ crashed = <<>> /\ lost_idx = <<>>

GenInit ==
    /\ RunIdle
    /\ FlowIdle
    /\ BatchIdle
    /\ JobIdle
    /\ TuiIdle
    /\ generation_timeout \in GenerationTimeouts
    /\ has_overlay \in BOOLEAN
    /\ session \in Sessions
    /\ skip_requested = FALSE
    /\ gpc = "goto" /\ elapsed = 0 /\ image_urls = <<>> /\ gen_result = NoResult
    /\ obs = NoObs /\ ticks = 0 /\ navigations = 0 /\ activations = 0 /\ submits = 0
    /\ preconditions = "pending" /\ qualified_seen = {} /\ skip_at = "never"
    /\ raised = <<>>
    /\ trigger = <<>> /\ resample = <<>> /\ resample_lost = FALSE /\ grace_waits = 0

GenStep ==
    \/ Goto
    \/ WaitTextarea
    \/ ActivateTool
    \/ Submit
    \/ LoopTop
    \/ PollTick
    \/ GraceResample
    \/ Raise

GenNext == GenStep \/ RequestSkip

GenSpec == GenInit /\ [][GenNext]_vars

\* The event loop resumes the coroutine whenever the call it awaits completes, and
\* every awaited call of generate is a sleep or carries a timeout.
GenFairSpec == GenSpec /\ WF_vars(GenStep)

\* ------------------------------------------------------------------ one job of a worker
\* The part of _account_worker's loop body that follows generate (parallel.py:79-96)
\* with ImageDownloader.download_all: the URLs of a success are downloaded one by
\* one, and the ParallelResult takes success, image_urls and error from the
\* generation result and saved_files from the downloads that gave a file.

\* A saved file is known by the index of its URL (the file name carries it).
Paths(urls) == [k \in DOMAIN urls |-> [index |-> k - 1]]

\* download_all: download(url, prompt, i) gives a path, or None for an HTTP
\* error, an empty body or an exception; the paths are appended in order.
DownloadAll(urls, ok) == SelectSeq(Paths(urls), LAMBDA f : ok[f.index + 1])

\* pr = ParallelResult(...), and pr.saved_files after a success.
MakeParallelResult(g, ok) ==
    [success |-> g.success, error |-> g.error, image_urls |-> g.image_urls,
     saved_files |-> IF g.success THEN DownloadAll(g.image_urls, ok) ELSE <<>>]

\* generate has returned: the downloads and the ParallelResult.
RecordOutcome ==
    /\ gpc = "done"
    /\ \E ok \in [DOMAIN gen_result.image_urls -> BOOLEAN] :
          job_pr' = MakeParallelResult(gen_result, ok)
    /\ gpc' = "recorded"
    /\ UNCHANGED <<run_vars, batch_vars, tui_vars, grace_vars, flow_vars, cfg_vars, raised,
                   skip_requested, elapsed, image_urls, gen_result, obs, count_vars,
                   preconditions, qualified_seen, skip_at>>

\* The entry of all_results for a recorded outcome (parallel.py:212-220).
OutcomeEntry(p) == [success |-> p.success, images |-> p.saved_files, error |-> p.error]

\* A worker's generator has no overlay (parallel.py:57).
WorkerJobInit == GenInit /\ ~has_overlay
WorkerJobNext == GenStep \/ RecordOutcome
WorkerJobSpec == WorkerJobInit /\ [][WorkerJobNext]_vars

\* ------------------------------------------------------------------ flow generate
\* FlowImageGenerator.generate (flow_generator.py): one job in the generator's
\* project.  Its images carry a query string, which the comparison with the
\* images already on the page strips.
MaxImagesPerPrompt == 2

\* FlowConfig.generation_timeout: the timeouts that are whole poll intervals.
FlowTimeouts == {t \in GenerationTimeouts : t >= 0 /\ t % (1000 * poll_interval) = 0}

\* A src attribute as base and query; NoSrc for a missing or empty one.
NoSrc == [base |-> "", query |-> ""]
FlowSrcValues == {NoSrc, [base |-> "g1", query |-> "a"], [base |-> "g1", query |-> "b"],
                  [base |-> "g2", query |-> "a"]}
\* src.split("?")[0]
BaseUrl(src) == src.base

FlowElements ==
    {e \in [src : FlowSrcValues, visible : BOOLEAN, w : Dims, h : Dims, detached : BOOLEAN] :
        /\ e.detached => (e.src = NoSrc /\ ~e.visible)
        /\ ~e.visible => (e.w = min_dim /\ e.h = min_dim)
        /\ e.src = NoSrc => (e.w = min_dim /\ e.h = min_dim)
        /\ (~e.detached /\ e.src = NoSrc) => e.visible
        /\ e.w = min_dim \/ e.h = min_dim}
FlowSamples == SeqsUpTo(FlowElements, MaxElements)

EnsureErrors == {"Failed to enter project", "Failed to switch to Images mode"}
RefErrors == {"Add reference button not found"}
FlowTextareaNotFound == <<"Prompt textarea not found">>
CreateNotFound == <<"Create button not found or not clickable">>
ContentRejection == "Content policy rejection"

\* _detect_content_rejection: document.body.innerText.substring(0, 5000) is
\* searched for the phrases; an exception of the evaluation gives None.
DetectContentRejection(text) ==
    IF text.readable /\ text.first_5000 THEN ContentRejection ELSE None

\* existing_urls: the src of every image on the page, visible or not, query stripped.
ExistingUrls(elements) ==
    {BaseUrl(elements[k].src) : k \in {j \in DOMAIN elements :
        ~elements[j].detached /\ elements[j].src # NoSrc}}

\* Mutant of FlowBigEnough: the size of the image is not looked at.
FlowBigEnoughAny(el) == TRUE

\* dims.get("w", 0) >= 256 and dims.get("h", 0) >= 256
FlowBigEnough(el) == el.w >= 256 /\ el.h >= 256

\* The body of "for img in imgs": what one element adds to the list.
FlowAccepts(existing, urls, el) ==
    /\ ~el.detached
    /\ el.visible
    /\ el.src # NoSrc
    /\ BaseUrl(el.src) \notin existing
    /\ el.src \notin Range(urls)
    /\ FlowBigEnough(el)

RECURSIVE FlowCollect(_, _, _)
FlowCollect(existing, urls, elements) ==
    IF elements = <<>> THEN urls
    ELSE FlowCollect(existing,
                     IF FlowAccepts(existing, urls, Head(elements))
                     THEN Append(urls, Head(elements).src) ELSE urls,
                     Tail(elements))

\* History only: the srcs a sample showed on a visible element of at least
\* 256 x 256, read off the sample itself.
FlowShownQualified(elements) ==
    {elements[k].src : k \in {j \in DOMAIN elements :
        /\ ~elements[j].detached /\ elements[j].visible
        /\ elements[j].w >= 256 /\ elements[j].h >= 256 /\ elements[j].src # NoSrc}}

\* Mutant of FlowEnsureProject: the project is set up again for every prompt.
FlowEnsureProjectAgain ==
    /\ gpc = "f_project"
    /\ \E init_error \in {None} \cup EnsureErrors :
          IF init_error # None
          THEN Return(Failure(<<init_error>>)) /\ UNCHANGED project_initialized
          ELSE /\ gpc' = "f_reference" /\ project_initialized' = TRUE
               /\ UNCHANGED gen_result
    /\ navigations' = navigations + 1
    /\ UNCHANGED <<run_vars, batch_vars, job_vars, tui_vars, grace_vars, cfg_vars, raised, skip_requested, elapsed, image_urls, obs,
                   ticks, activations, submits, preconditions, qualified_seen, skip_at,
                   images_per_prompt, existing_urls, new_image_urls, flow_hist>>

\* _ensure_project(): nothing to do once the project is initialised; otherwise the
\* dashboard, the project and the Images mode, or one of the error strings.
FlowEnsureProject ==
    /\ gpc = "f_project"
    /\ \E init_error \in {None} \cup (IF project_initialized THEN {} ELSE EnsureErrors) :
          IF init_error # None
          THEN Return(Failure(<<init_error>>)) /\ UNCHANGED project_initialized
          ELSE /\ gpc' = "f_reference" /\ project_initialized' = TRUE
               /\ UNCHANGED gen_result
    /\ navigations' = IF project_initialized THEN navigations ELSE navigations + 1
    /\ UNCHANGED <<run_vars, batch_vars, job_vars, tui_vars, grace_vars, cfg_vars, raised, skip_requested, elapsed, image_urls, obs,
                   ticks, activations, submits, preconditions, qualified_seen, skip_at,
                   images_per_prompt, existing_urls, new_image_urls, flow_hist>>

\* The reference image, when the caller gave one, is uploaded.
FlowReference ==
    /\ gpc = "f_reference"
    /\ \E reference_image \in BOOLEAN, ref_error \in {None} \cup RefErrors :
          IF reference_image /\ ref_error # None
          THEN Return(Failure(<<ref_error>>))
          ELSE gpc' = "f_existing" /\ UNCHANGED gen_result
    /\ UNCHANGED <<run_vars, batch_vars, job_vars, tui_vars, grace_vars, flow_vars, cfg_vars, raised, skip_requested, elapsed,
                   image_urls, obs, count_vars, preconditions, qualified_seen, skip_at>>

\* sleep(1), then the URLs of the images already on the page are collected.
FlowCollectExisting ==
    /\ gpc = "f_existing"
    /\ \E elements \in FlowSamples :
          /\ existing_urls' = ExistingUrls(elements)
          /\ shown_before_submit' = ExistingUrls(elements)
    /\ gpc' = "f_textarea"
    /\ UNCHANGED <<run_vars, batch_vars, job_vars, tui_vars, grace_vars, cfg_vars, raised, skip_requested, elapsed, image_urls,
                   gen_result, obs, count_vars, preconditions, qualified_seen, skip_at,
                   images_per_prompt, project_initialized, new_image_urls,
                   page_text, prev_setup>>

\* textarea.wait_for(visible, 10 s), then click and the two fills.
FlowWaitTextarea ==
    /\ gpc = "f_textarea"
    /\ \E visible \in BOOLEAN :
          IF visible
          THEN gpc' = "f_create" /\ UNCHANGED gen_result
          ELSE Return(Failure(FlowTextareaNotFound))
    /\ UNCHANGED <<run_vars, batch_vars, job_vars, tui_vars, grace_vars, flow_vars, cfg_vars, raised, skip_requested, elapsed,
                   image_urls, obs, count_vars, preconditions, qualified_seen, skip_at>>

\* create_btn.wait_for and click, both inside one try; then the polling locals.
\* The click comes seconds after the existing images were collected (the textarea
\* wait, two fills, two sleeps, the wait for the button): the page it is made on
\* shows what the shared project shows by then.
FlowCreate ==
    /\ gpc = "f_create"
    /\ \E clicked \in BOOLEAN :
          IF clicked
          THEN /\ submits' = submits + 1 /\ elapsed' = 0 /\ new_image_urls' = <<>>
               /\ gpc' = "f_loop" /\ UNCHANGED gen_result
               /\ \E elements \in FlowSamples :
                     shown_before_submit' = shown_before_submit \cup ExistingUrls(elements)
          ELSE /\ Return(Failure(CreateNotFound))
               /\ UNCHANGED <<submits, elapsed, new_image_urls, shown_before_submit>>
    /\ UNCHANGED <<run_vars, batch_vars, job_vars, tui_vars, grace_vars, cfg_vars, raised, skip_requested, image_urls, obs, ticks,
                   navigations, activations, preconditions, qualified_seen, skip_at,
                   images_per_prompt, project_initialized, existing_urls,
                   page_text, prev_setup>>

\* The loop test; when it fails, the returns after the loop: without an image
\* the page text is searched for a rejection phrase.
FlowLoopTop ==
    /\ gpc = "f_loop"
    /\ IF LoopGuard
       THEN gpc' = "f_sleep" /\ UNCHANGED <<gen_result, page_text>>
       ELSE IF new_image_urls = <<>>
            THEN \E text \in PageTexts :
                    /\ page_text' = text
                    /\ Return(Failure(IF DetectContentRejection(text) # None
                                      THEN <<DetectContentRejection(text)>>
                                      ELSE TimedOut(timeout_s)))
            ELSE Return(Success(new_image_urls)) /\ UNCHANGED page_text
    /\ UNCHANGED <<run_vars, batch_vars, job_vars, tui_vars, grace_vars, cfg_vars, raised, skip_requested, elapsed,
                   image_urls, obs, count_vars, preconditions, qualified_seen, skip_at,
                   images_per_prompt, project_initialized, existing_urls, new_image_urls,
                   shown_before_submit, prev_setup>>

\* Mutant of AllExpected: any image ends the polling.
AllExpectedAny(urls) == urls # <<>>

\* "if new_image_urls:" and not "len(new_image_urls) < images_per_prompt": all the
\* expected images are there, the final sweep follows.
AllExpected(urls) == urls # <<>> /\ Len(urls) >= images_per_prompt

\* One poll tick: sleep(poll_interval), the page guard, the enumeration (an
\* exception of it is Raise), the collection loop; with fewer images than
\* images_per_prompt the loop continues.
FlowPollTick ==
    /\ gpc = "f_sleep"
    /\ elapsed' = elapsed + poll_interval
    /\ ticks' = ticks + 1
    /\ \E alive \in BOOLEAN :
       \E elements \in (IF alive THEN FlowSamples ELSE {<<>>}) :
          /\ qualified_seen' = qualified_seen \cup FlowShownQualified(elements)
          /\ IF ~alive
             THEN Return(Failure(PageClosed)) /\ UNCHANGED new_image_urls
             ELSE /\ new_image_urls' = FlowCollect(existing_urls, new_image_urls, elements)
                  /\ gpc' = IF AllExpected(new_image_urls') THEN "f_sweep" ELSE "f_loop"
                  /\ UNCHANGED gen_result
    /\ UNCHANGED <<run_vars, batch_vars, job_vars, tui_vars, grace_vars, cfg_vars, raised, skip_requested, image_urls, obs,
                   navigations, activations, submits, preconditions, skip_at,
                   images_per_prompt, project_initialized, existing_urls, flow_hist>>

\* All expected images found: sleep(3), one more enumeration and collection,
\* break, and the list is returned.
FlowFinalSweep ==
    /\ gpc = "f_sweep"
    /\ \E elements \in FlowSamples :
          /\ new_image_urls' = FlowCollect(existing_urls, new_image_urls, elements)
          /\ qualified_seen' = qualified_seen \cup FlowShownQualified(elements)
          /\ Return(Success(new_image_urls'))
    /\ UNCHANGED <<run_vars, batch_vars, job_vars, tui_vars, grace_vars, cfg_vars, raised, skip_requested, elapsed, image_urls, obs,
                   count_vars, preconditions, skip_at,
                   images_per_prompt, project_initialized, existing_urls, flow_hist>>

\* A FlowImageGenerator, fresh or with its project set up by an earlier prompt,
\* is given a job.
FlowInit ==
    /\ RunIdle
    /\ BatchIdle
    /\ JobIdle
    /\ TuiIdle
    /\ generation_timeout \in FlowTimeouts
    /\ has_overlay = FALSE /\ session = "ok" /\ skip_requested = FALSE
    /\ gpc = "f_project" /\ elapsed = 0 /\ image_urls = <<>> /\ gen_result = NoResult
    /\ obs = NoObs /\ ticks = 0 /\ navigations = 0 /\ activations = 0 /\ submits = 0
    /\ preconditions = "pending" /\ qualified_seen = {} /\ skip_at = "never"
    /\ raised = <<>>
    /\ trigger = <<>> /\ resample = <<>> /\ resample_lost = FALSE /\ grace_waits = 0
    /\ images_per_prompt \in 1..MaxImagesPerPrompt
    /\ project_initialized \in BOOLEAN
    /\ existing_urls = {} /\ new_image_urls = <<>>
    /\ shown_before_submit = {} /\ page_text = NoText /\ prev_setup = "none"

FlowStep ==
    \/ FlowEnsureProject
    \/ FlowReference
    \/ FlowCollectExisting
    \/ FlowWaitTextarea
    \/ FlowCreate
    \/ FlowLoopTop
    \/ FlowPollTick
    \/ FlowFinalSweep

\* generate has returned and the caller gives the same generator its next prompt
\* (generate_batch's loop): the locals of generate start afresh, the generator's
\* _project_initialized and its config stay.
FlowNextJob ==
    /\ gpc = "done" /\ images_per_prompt > 0
    /\ prev_setup' = IF project_initialized THEN "ok" ELSE "failed"
    /\ gpc' = "f_project" /\ elapsed' = 0 /\ image_urls' = <<>> /\ gen_result' = NoResult
    /\ obs' = NoObs /\ ticks' = 0 /\ navigations' = 0 /\ activations' = 0 /\ submits' = 0
    /\ preconditions' = "pending" /\ qualified_seen' = {} /\ skip_at' = "never"
    /\ raised' = <<>>
    /\ existing_urls' = {} /\ new_image_urls' = <<>>
    /\ shown_before_submit' = {} /\ page_text' = NoText
    /\ UNCHANGED <<run_vars, batch_vars, job_vars, tui_vars, grace_vars, cfg_vars, skip_requested,
                   images_per_prompt, project_initialized>>

\* The jobs of one FlowImageGenerator, one after the other.
FlowNext == FlowStep \/ Raise \/ FlowNextJob
FlowSpec == FlowInit /\ [][FlowNext]_vars

\* A job run by either generator.
GeneratorsInit == GenInit \/ FlowInit
GeneratorsNext == GenNext \/ FlowStep
GeneratorsSpec == GeneratorsInit /\ [][GeneratorsNext]_vars

\* ------------------------------------------------------------------ generate_batch
\* ImageGenerator.generate_batch and FlowImageGenerator.generate_batch: the prompts
\* one after the other in one session.  generate is a call that returns a result
\* (GenerateOutcomes); the page may be closed while any awaited call is under way.
\* The ImageGenerator is one without overlay, as every caller builds it.
BatchKinds == {"gemini", "flow"}
ClosedBefore == "Browser was closed before this prompt"
total == Len(batch_prompts)

BatchResult(prompt, g) == [prompt |-> prompt, success |-> g.success, error |-> g.error]

\* for remaining in prompts[i - 1:]: results.append(Failure(closed before))
RemainingClosed(i) ==
    [k \in 1..(total - i + 1) |->
        BatchResult(batch_prompts[i - 1 + k], [success |-> FALSE, error |-> ClosedBefore])]

\* "if reference_image and ref_uploaded" of the Flow batch.
NeedsReattach == batch_kind = "flow" /\ batch_reference /\ ref_uploaded

\* The page as an awaited call may leave it: once closed it stays closed.
AliveAfter == IF batch_alive THEN BOOLEAN ELSE {FALSE}

\* The top of an iteration: the for loop ends and the list is returned, or the
\* guard finds the page closed, fills in the remaining prompts and breaks, or the
\* iteration goes on.
BatchGuard ==
    /\ batch_pc = "guard"
    /\ IF batch_i > total
       THEN batch_pc' = "returned" /\ UNCHANGED <<batch_results, closed_at>>
       ELSE IF ~batch_alive
       THEN /\ batch_results' = batch_results \o RemainingClosed(batch_i)
            /\ closed_at' = batch_i
            /\ batch_pc' = "returned"
       ELSE /\ batch_pc' = IF NeedsReattach THEN "reattach" ELSE "generate"
            /\ UNCHANGED <<batch_results, closed_at>>
    /\ UNCHANGED <<run_vars, gen_vars, flow_vars, job_vars, tui_vars, batch_kind, batch_prompts,
                   batch_reference, ref_uploaded, batch_i, batch_alive, generate_calls>>

\* _reattach_reference_from_picker(): it returns None or an error string, which
\* is printed as a warning; its page.evaluate and keyboard.press calls are in no
\* try block and raise when the page was closed under them, and generate_batch
\* has no handler.
BatchReattach ==
    /\ batch_pc = "reattach"
    /\ \E alive \in AliveAfter :
          /\ batch_alive' = alive
          /\ \E raises \in (IF alive THEN {FALSE} ELSE BOOLEAN) :
                batch_pc' = IF raises THEN "raised" ELSE "generate"
    /\ UNCHANGED <<run_vars, gen_vars, flow_vars, job_vars, tui_vars, batch_kind, batch_prompts,
                   batch_reference, ref_uploaded, batch_i, batch_results,
                   generate_calls, closed_at>>

\* result = await self.generate(prompt), results.append(result); after the last
\* prompt the loop ends and the list is returned.
BatchGenerate ==
    /\ batch_pc = "generate"
    /\ generate_calls' = Append(generate_calls, batch_i)
    /\ \E alive \in AliveAfter :
          /\ batch_alive' = alive
          /\ \E g \in GenerateOutcomes(alive) :
                /\ batch_results' =
                       Append(batch_results, BatchResult(batch_prompts[batch_i], g))
                /\ ref_uploaded' = (ref_uploaded \/ (batch_reference /\ g.success))
    /\ batch_pc' = IF batch_i < total THEN "delay" ELSE "returned"
    /\ UNCHANGED <<run_vars, gen_vars, flow_vars, job_vars, tui_vars, batch_kind, batch_prompts,
                   batch_reference, batch_i, closed_at>>

\* if i < total: the delay between two prompts, then the next iteration.
BatchDelay ==
    /\ batch_pc = "delay"
    /\ \E alive \in AliveAfter : batch_alive' = alive
    /\ batch_i' = batch_i + 1
    /\ batch_pc' = "guard"
    /\ UNCHANGED <<run_vars, gen_vars, flow_vars, job_vars, tui_vars, batch_kind, batch_prompts,
                   batch_reference, ref_uploaded, batch_results, generate_calls,
                   closed_at>>

BatchInit ==
    /\ RunIdle
    /\ GenIdle
    /\ JobIdle
    /\ TuiIdle
    /\ batch_kind \in BatchKinds
    /\ batch_prompts \in PromptLists
    /\ batch_reference \in (IF batch_kind = "flow" THEN BOOLEAN ELSE {FALSE})
    /\ ref_uploaded = FALSE
    /\ batch_i = 1
    /\ batch_results = <<>>
    /\ batch_pc = "guard"
    /\ batch_alive \in BOOLEAN
    /\ generate_calls = <<>> /\ closed_at = 0

BatchNext ==
    \/ BatchGuard
    \/ BatchReattach
    \/ BatchGenerate
    \/ BatchDelay

BatchSpec == BatchInit /\ [][BatchNext]_vars

\* ------------------------------------------------------------------ the TUI queue
\* MainScreen (src/tui/screens/main.py): the queue of QueueItems, _is_processing and
\* the _run_generation workers.  Everything runs on one event loop: a handler or
\* the stretch of a worker between two awaits is one step.
MaxItems == 3

ActiveStatuses == {"Launching...", "Checking login...", "Generating...", "Downloading..."}

\* QueueItem(id=task_id, ...): status "Pending".
Item(id) == [id |-> id, status |-> "Pending"]

\* _update_task: the item with that id, when it is still in the queue.
UpdateTask(q, id, status) ==
    [k \in DOMAIN q |-> IF q[k].id = id THEN [q[k] EXCEPT !.status = status] ELSE q[k]]

\* _get_next_pending: the id of the first Pending item, 0 for None.
GetNextPending(q) ==
    LET pending == {k \in DOMAIN q : q[k].status = "Pending"}
    IN IF pending = {} THEN 0
       ELSE q[CHOOSE k \in pending : \A j \in pending : k <= j].id

\* self._run_generation(item): a worker is created; it runs when the loop gets to it.
NewWorker(id) == [item |-> id, pc |-> "start", cancelled |-> FALSE]

\* The screen's state as the handlers pass it on.
Screen == [q |-> ui_queue, processing |-> is_processing, workers |-> ui_workers]

\* _process_next
ProcessNext(st) ==
    IF GetNextPending(st.q) # 0
    THEN [st EXCEPT !.processing = TRUE,
                    !.workers = @ \cup {NewWorker(GetNextPending(st.q))}]
    ELSE [st EXCEPT !.processing = FALSE]

\* _add_to_queue with an account selected.
AddToQueue(st, id) ==
    IF st.processing
    THEN [st EXCEPT !.q = Append(@, Item(id))]
    ELSE ProcessNext([st EXCEPT !.q = Append(@, Item(id))])

SetScreen(st) ==
    /\ ui_queue' = st.q
    /\ is_processing' = st.processing
    /\ ui_workers' = st.workers

\* action_new_prompt with a prompt typed; without an account nothing is added.
NewPrompt ==
    /\ ids_used < MaxItems
    /\ \E account \in BOOLEAN :
          IF account
          THEN SetScreen(AddToQueue(Screen, ids_used + 1)) /\ ids_used' = ids_used + 1
          ELSE UNCHANGED tui_vars
    /\ UNCHANGED <<run_vars, gen_vars, flow_vars, batch_vars, job_vars>>

\* on_batch_result with two prompts: _add_to_queue for each in turn.
BatchAdd ==
    /\ ids_used + 2 <= MaxItems
    /\ SetScreen(AddToQueue(AddToQueue(Screen, ids_used + 1), ids_used + 2))
    /\ ids_used' = ids_used + 2
    /\ UNCHANGED <<run_vars, gen_vars, flow_vars, batch_vars, job_vars>>

\* action_delete_task with the cursor on a Pending row.
DeleteTask ==
    /\ \E k \in DOMAIN ui_queue :
          /\ ui_queue[k].status = "Pending"
          /\ ui_queue' = SubSeq(ui_queue, 1, k - 1) \o SubSeq(ui_queue, k + 1, Len(ui_queue))
    /\ UNCHANGED <<run_vars, gen_vars, flow_vars, batch_vars, job_vars,
                   is_processing, ui_workers, ids_used>>

\* action_cancel_task: workers.cancel_all(), the items under way become
\* "Cancelled", _is_processing = False.
CancelTask ==
    /\ ui_workers' = {[w EXCEPT !.cancelled = TRUE] : w \in ui_workers}
    /\ ui_queue' = [k \in DOMAIN ui_queue |->
                      IF ui_queue[k].status \in ActiveStatuses
                      THEN [ui_queue[k] EXCEPT !.status = "Cancelled"] ELSE ui_queue[k]]
    /\ is_processing' = FALSE
    /\ UNCHANGED <<run_vars, gen_vars, flow_vars, batch_vars, job_vars, ids_used>>

\* A cancelled worker: CancelledError is raised at the await it is suspended in (or
\* before its first statement); "except Exception" does not catch it and the
\* coroutine ends there.
WorkerCancelled(w) ==
    /\ w.cancelled
    /\ ui_workers' = ui_workers \ {w}
    /\ UNCHANGED <<run_vars, gen_vars, flow_vars, batch_vars, job_vars,
                   ui_queue, is_processing, ids_used>>

\* The worker goes on to its next await with a new status shown.
WorkerGoes(w, status, pc_next) ==
    /\ ui_queue' = UpdateTask(ui_queue, w.item, status)
    /\ ui_workers' = (ui_workers \ {w}) \cup {[w EXCEPT !.pc = pc_next]}
    /\ UNCHANGED is_processing

\* The ends of _run_generation that are reached without a cancel: the last status,
\* bm.close(), _is_processing = False, _process_next().
WorkerEnds(w, status) ==
    SetScreen(ProcessNext([q |-> UpdateTask(ui_queue, w.item, status),
                           processing |-> FALSE,
                           workers |-> ui_workers \ {w}]))

\* The first stretch of the coroutine: the config, "Launching...", await bm.launch().
WorkerStart(w) ==
    /\ ~w.cancelled /\ w.pc = "start"
    /\ WorkerGoes(w, "Launching...", "launch")
    /\ UNCHANGED <<run_vars, gen_vars, flow_vars, batch_vars, job_vars, ids_used>>

\* bm.launch() returned or raised.
WorkerLaunched(w) ==
    /\ ~w.cancelled /\ w.pc = "launch"
    /\ \E launched \in BOOLEAN :
          IF launched THEN WorkerGoes(w, "Checking login...", "login")
          ELSE WorkerEnds(w, "Error")
    /\ UNCHANGED <<run_vars, gen_vars, flow_vars, batch_vars, job_vars, ids_used>>

\* get_page and is_logged_in returned or raised.
WorkerLoginChecked(w) ==
    /\ ~w.cancelled /\ w.pc = "login"
    /\ \E login \in {"in", "out", "raised"} :
          IF login = "in" THEN WorkerGoes(w, "Generating...", "generate")
          ELSE WorkerEnds(w, IF login = "out" THEN "Not logged in!" ELSE "Error")
    /\ UNCHANGED <<run_vars, gen_vars, flow_vars, batch_vars, job_vars, ids_used>>

\* generator.generate returned.
WorkerGenerated(w) ==
    /\ ~w.cancelled /\ w.pc = "generate"
    /\ \E success \in BOOLEAN :
          IF success THEN WorkerGoes(w, "Downloading...", "download")
          ELSE WorkerEnds(w, "Failed")
    /\ UNCHANGED <<run_vars, gen_vars, flow_vars, batch_vars, job_vars, ids_used>>

\* download_all returned, the item is done; or update_last_used or bm.close raised.
WorkerDownloaded(w) ==
    /\ ~w.cancelled /\ w.pc = "download"
    /\ \E closed \in BOOLEAN : WorkerEnds(w, IF closed THEN "Done" ELSE "Error")
    /\ UNCHANGED <<run_vars, gen_vars, flow_vars, batch_vars, job_vars, ids_used>>

TuiInit ==
    /\ RunIdle
    /\ GenIdle
    /\ BatchIdle
    /\ JobIdle
    /\ ui_queue = <<>> /\ is_processing = FALSE /\ ui_workers = {} /\ ids_used = 0

TuiWorkerStep ==
    \/ \E w \in ui_workers : WorkerCancelled(w)
    \/ \E w \in ui_workers : WorkerStart(w)
    \/ \E w \in ui_workers : WorkerLaunched(w)
    \/ \E w \in ui_workers : WorkerLoginChecked(w)
    \/ \E w \in ui_workers : WorkerGenerated(w)
    \/ \E w \in ui_workers : WorkerDownloaded(w)

TuiNext ==
    \/ NewPrompt
    \/ BatchAdd
    \/ DeleteTask
    \/ CancelTask
    \/ TuiWorkerStep

\* The event loop runs every worker that can go on (every await of a worker
\* returns or raises in the end); nothing makes the user act.
TuiSpec == TuiInit /\ [][TuiNext]_vars /\ WF_vars(TuiWorkerStep)

\* ------------------------------------------------------------------ claims
\* run_parallel has started its workers (it did not take an early return).
Started == phase = "running" \/ (phase = "returned" /\ "error" \notin DOMAIN ret)
Returned == phase = "returned" /\ "error" \notin DOMAIN ret

QueueIdx == {queue[k].idx : k \in DOMAIN queue}
PulledIdx == {pull_log[k].idx : k \in DOMAIN pull_log}
\* The worker that pulled index i, when one did.
PullerOf(i) == {pull_log[k].w : k \in {j \in DOMAIN pull_log : pull_log[j].idx = i}}

\* C1: when run_parallel returns without a validation error, 'results' has exactly
\* one entry per submitted prompt, entry i carries prompts[i], and an entry that
\* names an account is the outcome of the worker that pulled index i: whichever
\* worker processed it, whatever crashed, equal texts kept apart.
C1_OneOutcomePerIndexInOrder ==
    Returned =>
        /\ Len(ret.results) = Len(prompts)
        /\ \A i \in Indices :
              /\ ret.results[i + 1].prompt = prompts[i + 1]
              /\ ret.results[i + 1].account # None =>
                    \E w \in PullerOf(i) :
                        ret.results[i + 1].account = active_accounts[w]

\* C1 witness: three prompts, the first and third with the same text and each with
\* an outcome of its own from a different account, the second lost to a crash.
C1_Witness ==
    /\ Returned /\ Len(prompts) = 3 /\ prompts[1] = prompts[3]
    /\ ret.results[1].success /\ ~ret.results[3].success
    /\ ret.results[3].account # None
    /\ ret.results[1].account # ret.results[3].account
    /\ ret.results[2].error = NotProcessed

\* C2: under every interleaving of the pulls, no index is pulled twice, no index is
\* twice on the queue, and every index is either still on the queue or pulled by
\* exactly one worker; a worker holding an entry holds the one it pulled.
C2_PulledAtMostOnceNoneLost ==
    Started =>
        /\ \A j, k \in DOMAIN pull_log :
              pull_log[j].idx = pull_log[k].idx => j = k
        /\ \A j, k \in DOMAIN queue : queue[j].idx = queue[k].idx => j = k
        /\ QueueIdx \cap PulledIdx = {}
        /\ QueueIdx \cup PulledIdx = Indices
        /\ \A w \in Workers :
              pc[w] = "job" =>
                  /\ PullerOf(cur[w].idx) = {w}
                  /\ cur[w].prompt = prompts[cur[w].idx + 1]

\* C2 witness: two workers hold an entry each while a third entry waits.
C2_Witness ==
    /\ phase = "running" /\ Len(queue) = 1
    /\ \E v, w \in Workers : v # w /\ pc[v] = "job" /\ pc[w] = "job"

\* C3: the index a worker held when it died is never on the queue again, is never
\* pulled, held or submitted by another worker, is never recorded, and is reported
\* in the aggregate as the not-processed failure with no account.
C3_LostIndexNotRequeued ==
    \A w \in Workers :
        crashed[w] = "job" =>
            /\ lost_idx[w] \notin QueueIdx
            /\ PullerOf(lost_idx[w]) = {w}
            /\ \A v \in Workers \ {w} :
                  /\ cur[v].idx # lost_idx[w]
                  /\ \A k \in DOMAIN submitted[v] : submitted[v][k] # lost_idx[w]
            /\ lost_idx[w] \notin DOMAIN results
            /\ phase = "returned" =>
                  ret.results[lost_idx[w] + 1] =
                      [prompt |-> prompts[lost_idx[w] + 1], account |-> None,
                       success |-> FALSE, error |-> NotProcessed]

\* C3 witness: a worker died holding index 0 and another worker went on to record
\* a later index.
C3_Witness ==
    /\ phase = "returned"
    /\ \E w \in Workers :
          /\ crashed[w] = "job" /\ lost_idx[w] = 0
          /\ \E v \in Workers \ {w} : crashed[v] = "no" /\ Len(submitted[v]) >= 2

\* C4: a worker whose setup raised ends alone: run_parallel still returns, every
\* other worker at the top of its loop can still pull, a worker that did not crash
\* stops only on an empty queue, and when at least one setup succeeded and no
\* worker died holding an entry, every index has a recorded outcome (none is
\* reported not-processed).
C4_SetupCrashContained ==
    (Started /\ \E w \in Workers : crashed[w] = "setup") =>
        /\ \A v \in Workers : (pc[v] = "loop" /\ queue # <<>>) => ENABLED Pull(v)
        /\ \A v \in Workers : (crashed[v] = "no" /\ pc[v] = "done") => queue = <<>>
        /\ ( /\ Returned
             /\ \E v \in Workers : crashed[v] # "setup"
             /\ \A v \in Workers : crashed[v] # "job" ) =>
               \A i \in Indices :
                   /\ i \in DOMAIN results
                   /\ ret.results[i + 1].account # None
                   /\ ret.results[i + 1].error # NotProcessed

\* C4 witness: one worker's setup raised, the other processed all three prompts.
C4_Witness ==
    /\ Returned /\ Len(prompts) = 3
    /\ \E w, v \in Workers :
          /\ crashed[w] = "setup" /\ crashed[v] = "no"
          /\ Len(submitted[v]) = 3
          /\ \A i \in Indices : ret.results[i + 1].account = active_accounts[v]

\* C5: as claimed, a worker that recorded a session-lost failure for an entry
\* pulls no entry after it.
C5_LostSessionStopsWorker ==
    \A j, k \in DOMAIN pull_log :
        (j < k /\ pull_log[j].w = pull_log[k].w) =>
            ~( /\ pull_log[j].idx \in DOMAIN results
               /\ results[pull_log[j].idx].error = "SessionLost" )

\* C6: as claimed, the number of workers started is
\* min(max_concurrent or |accounts|, |accounts|, |prompts|), and accounts_used
\* lists the workers' accounts.
C6_WorkerCountIsMin ==
    /\ [][(phase = "call" /\ phase' = "running") =>
            Len(active_accounts') =
                Min3(PyOr(max_concurrent, Len(ResolvedNames)),
                     Len(ResolvedNames), Len(prompts))]_vars
    /\ [](Returned => ret.accounts_used = active_accounts)

\* C33: as claimed, for every integer max_concurrent, zero and negative values
\* included, a call with at least one account and at least one prompt that gets to
\* start its workers starts at least one and at most min(|accounts|, |prompts|).
C33_WorkerCountWithinBounds ==
    [][(/\ phase = "call" /\ phase' = "running"
        /\ max_concurrent # NoLimit
        /\ Len(ResolvedNames) >= 1 /\ Len(prompts) >= 1) =>
          /\ Len(active_accounts') >= 1
          /\ Len(active_accounts') <= Len(ResolvedNames)
          /\ Len(active_accounts') <= Len(prompts)]_vars

\* C7: as claimed, no two workers of a call are started on the same account, that
\* is on the same profile directory (so the workers never outnumber the distinct
\* account ids).
C7_OneSessionPerAccount ==
    \A v, w \in Workers :
        v # w => ProfileDir(active_accounts[v]) # ProfileDir(active_accounts[w])

\* C8: a call that names an account the registry does not hold returns the
\* validation error in its first step, with empty results, no queue seeded, no
\* worker or context created and no last-used stamp written, also when the
\* registered accounts of the request alone would have been enough.
C8_ValidationAllOrNothing ==
    [][( /\ phase = "call"
         /\ ~IsAll(account_names)
         /\ \E k \in DOMAIN account_names : ~Registered(account_names[k]) ) =>
            ( /\ phase' = "returned"
              /\ "error" \in DOMAIN ret'
              /\ ret'.results = <<>>
              /\ ret'.successful = 0
              /\ queue' = <<>> /\ results' = <<>>
              /\ active_accounts' = <<>> /\ pc' = <<>> /\ context' = <<>>
              /\ last_used' = {} /\ pull_log' = <<>> )]_vars

\* C8 witness: the first account is registered, the second is not and lies beyond
\* max_concurrent = 1; the call has returned the error with nothing stamped.
C8_Witness ==
    /\ phase = "returned" /\ "error" \in DOMAIN ret
    /\ ret.error[1] = "not found"
    /\ Len(account_names) = 2 /\ max_concurrent = <<1>>
    /\ Registered(account_names[1]) /\ ~Registered(account_names[2])
    /\ Len(prompts) = 3 /\ last_used = {} /\ ret.results = <<>>

RECURSIVE CountSuccess(_)
CountSuccess(s) ==
    IF s = <<>> THEN 0
    ELSE (IF Head(s).success THEN 1 ELSE 0) + CountSuccess(Tail(s))

\* C9: in every returned value, error returns included, successful + failed =
\* total_prompts = the number of submitted prompts, and successful counts the
\* entries of results whose success is true.
C9_CountsAddUp ==
    phase = "returned" =>
        /\ ret.successful + ret.failed = ret.total_prompts
        /\ ret.total_prompts = Len(prompts)
        /\ ret.successful = CountSuccess(ret.results)

\* C9 witness: a returned batch with a success, a recorded failure and a prompt
\* no worker processed.
C9_Witness ==
    /\ Returned /\ ret.successful = 1 /\ ret.failed = 2
    /\ \E i, j \in Indices :
          /\ ret.results[i + 1].error = NotProcessed
          /\ ret.results[j + 1].error = "JobFailed"

\* C10: the k-th successful pull, by whichever worker, returns index k-1; every
\* worker submits its entries in increasing index order; a single worker that is
\* not stopped by a crash submits 0, 1, ..., N-1, each once, in that order.
C10_FifoPullOrder ==
    /\ \A k \in DOMAIN pull_log : pull_log[k].idx = k - 1
    /\ \A w \in Workers : \A j, k \in DOMAIN submitted[w] :
          j < k => submitted[w][j] < submitted[w][k]
    /\ (Len(active_accounts) = 1 /\ Returned /\ crashed[1] = "no") =>
          submitted[1] = [k \in 1..Len(prompts) |-> k - 1]

\* C10 witness: a single worker has submitted three prompts, 0 then 1 then 2.
C10_Witness ==
    /\ Returned /\ Len(active_accounts) = 1 /\ Len(prompts) = 3
    /\ submitted[1] = <<0, 1, 2>> /\ Len(pull_log) = 3

\* The indices worker w has pulled, and those of them with no outcome recorded.
PulledBy(w) == {pull_log[k].idx : k \in {j \in DOMAIN pull_log : pull_log[j].w = w}}
InFlight(w) == PulledBy(w) \ (DOMAIN results \cup {lost_idx[w]})

\* C18: a session never has two jobs in flight.  Of the indices a worker has
\* pulled, the only one without a recorded outcome is the one it holds (or held
\* when it died); while it is at the queue, and so whenever it pulls the next
\* entry, every job it handed to generate has its outcome, downloads included, in
\* the results map.
C18_OneJobInFlightPerSession ==
    Started =>
        \A w \in Workers :
            /\ Cardinality(InFlight(w)) <= 1
            /\ pc[w] = "job" => InFlight(w) = {cur[w].idx}
            /\ pc[w] = "loop" => InFlight(w) = {}
            /\ \A k \in DOMAIN submitted[w] : submitted[w][k] \in DOMAIN results

\* C18 witness: a worker holds its second job, the outcome of its first recorded.
C18_Witness ==
    /\ phase = "running"
    /\ \E w \in Workers :
          /\ pc[w] = "job" /\ Len(submitted[w]) = 1
          /\ submitted[w][1] \in DOMAIN results /\ cur[w].idx # submitted[w][1]

\* C19: a worker whose task has ended has no open context, whichever way it ended
\* (queue drained, crash in the setup or in the loop, cancellation), so none is
\* open once run_parallel has returned or was cancelled; and no task is ended by
\* an exception of context.close().
C19_ContextClosedOnEveryExit ==
    /\ \A w \in DOMAIN pc :
          /\ pc[w] = "done" => context[w] # "open"
          /\ crashed[w] # "close"
    /\ phase \in {"returned", "cancelled"} =>
          \A w \in DOMAIN context : context[w] # "open"

\* C19 witness: a call was cancelled after one worker had crashed in its loop and
\* while another held a job; both contexts, once open, are closed.
C19_Witness ==
    /\ phase = "cancelled"
    /\ \E v, w \in Workers :
          /\ crashed[v] = "job" /\ context[v] = "closed"
          /\ crashed[w] = "cancelled" /\ context[w] = "closed"
          /\ Len(submitted[w]) = 1

\* The indices handed to generate so far, one per assignment to the results map.
RECURSIVE SubmittedCount(_)
SubmittedCount(W) ==
    IF W = {} THEN 0
    ELSE LET w == CHOOSE v \in W : TRUE
         IN Len(submitted[w]) + SubmittedCount(W \ {w})

\* C22: outcomes are write-once.  The index a worker is about to record has no
\* outcome yet, the map has as many entries as assignments were made (no
\* assignment hit an index twice), and a step of any worker leaves every recorded
\* outcome in the map as it was, adding at most one.
C22_OutcomesWriteOnce ==
    /\ [](Started =>
            /\ \A w \in Workers : pc[w] = "job" => cur[w].idx \notin DOMAIN results
            /\ SubmittedCount(Workers) = Cardinality(DOMAIN results))
    /\ [][phase = "running" =>
            /\ \A i \in DOMAIN results : i \in DOMAIN results' /\ results'[i] = results[i]
            /\ Cardinality(DOMAIN results') <= Cardinality(DOMAIN results) + 1]_vars

\* C22 witness: two workers have recorded an outcome each and one of them holds a
\* third entry.
C22_Witness ==
    /\ phase = "running" /\ Cardinality(DOMAIN results) = 2
    /\ \E i, j \in DOMAIN results : results[i].account # results[j].account
    /\ \E w \in Workers : pc[w] = "job" /\ Len(submitted[w]) = 1

\* C23: the aggregate is built from the results map only when every worker task
\* has ended, by draining the queue or by a crash; from then on the map does not
\* change, so the aggregate returned is the aggregate of the final map.
C23_AggregateAfterAllJoined ==
    /\ [][(phase = "running" /\ phase' = "returned") =>
            /\ \A w \in Workers : pc[w] = "done" /\ context[w] # "open"
            /\ ret'.results = AllResults]_vars
    /\ [][phase = "returned" => results' = results]_vars
    /\ [](Returned =>
            /\ \A w \in Workers : pc[w] = "done" /\ cur[w] = NoJob
            /\ ret.results = AllResults)

\* C23 witness: the aggregate was built after one worker had crashed holding an
\* entry and the other had drained the queue, recording two outcomes.
C23_Witness ==
    /\ Returned /\ Cardinality(DOMAIN results) = 2
    /\ \E v, w \in Workers :
          /\ crashed[v] = "job" /\ crashed[w] = "no" /\ Len(submitted[w]) = 2

\* C24: a worker never waits on an empty queue.  At the top of its loop it either
\* pulls (queue not empty) or leaves the loop (queue empty), in that one step and
\* whatever the other workers are doing; so, every job's generate and download
\* completing, every worker task ends and run_parallel returns.
C24_NoBlockingOnEmptyQueue ==
    /\ [](\A w \in Workers : (phase = "running" /\ pc[w] = "loop") =>
            IF queue = <<>> THEN ENABLED QueueEmptyExit(w) ELSE ENABLED Pull(w))
    /\ [][\A w \in Workers :
            (phase = "running" /\ pc[w] = "loop" /\ queue = <<>> /\ pc'[w] # pc[w])
                => pc'[w] = "done"]_vars
    /\ <>(phase = "returned")
    /\ [](phase = "returned" => \A w \in Workers : pc[w] = "done")

\* C24 witness: two workers found the queue empty and left, one of them without
\* ever having had an entry, and run_parallel returned.
C24_Witness ==
    /\ Returned /\ Len(prompts) = 3
    /\ \E v, w \in Workers :
          /\ crashed[v] = "no" /\ crashed[w] = "no"
          /\ Len(submitted[v]) = 0 /\ Len(submitted[w]) = 3

\* C26: a job that fails on a live session (precondition, rejection, timeout,
\* unexpected) ends alone.  The step that records its Failure records it at the
\* job's index under the worker's account, touches neither the queue nor the
\* session, and leaves the worker at the top of its loop, where it pulls the next
\* entry if there is one.
C26_JobFailureEndsJobOnly ==
    /\ [][\A w \in Workers :
            ( /\ phase = "running" /\ pc[w] = "job"
              /\ cur[w].idx \in DOMAIN results'
              /\ results'[cur[w].idx].error = "JobFailed" ) =>
                /\ results'[cur[w].idx] =
                       [prompt |-> prompts[cur[w].idx + 1], account |-> active_accounts[w],
                        success |-> FALSE, error |-> "JobFailed"]
                /\ pc'[w] = "loop" /\ crashed'[w] = "no"
                /\ context'[w] = "open" /\ page_alive'[w]
                /\ queue' = queue]_vars
    /\ [](\A w \in Workers :
            (phase = "running" /\ pc[w] = "loop" /\ queue # <<>>) =>
                (context[w] = "open" /\ ENABLED Pull(w)))

\* C26 witness: a worker's first job failed, and the same worker, its context
\* still the one it launched, went on to a success with the next entry it pulled.
C26_Witness ==
    /\ phase = "running"
    /\ \E w \in Workers :
          /\ Len(submitted[w]) = 2 /\ context[w] = "open" /\ pc[w] = "loop"
          /\ results[submitted[w][1]].error = "JobFailed"
          /\ results[submitted[w][2]].success
          /\ results[submitted[w][2]].account = active_accounts[w]

\* C36: the workers of a call are those of active_accounts as computed before the
\* start, and no other account is launched afterwards: the list of workers never
\* changes while the call runs, only accounts of it are stamped, pull entries or
\* appear in an outcome, and an entry that no worker pulled (every worker having
\* ended) is returned as the not-processed failure with no account.
C36_IdleAccountsNeverLaunched ==
    /\ [](Started =>
            /\ last_used = Range(active_accounts)
            /\ DOMAIN pc = 1..Len(active_accounts)
            /\ \A k \in DOMAIN pull_log : pull_log[k].w \in 1..Len(active_accounts)
            /\ \A i \in DOMAIN results : results[i].account \in Range(active_accounts))
    /\ [](Returned =>
            /\ ret.accounts_used = active_accounts
            /\ \A i \in Indices \ PulledIdx :
                  /\ ret.results[i + 1].account = None
                  /\ ~ret.results[i + 1].success
                  /\ ret.results[i + 1].error = NotProcessed)
    /\ [][phase = "running" =>
            (active_accounts' = active_accounts /\ DOMAIN pc' = DOMAIN pc)]_vars

\* Every started worker crashed with entries still on the queue; the call returned
\* them as not processed, and a registered account that was not started was never
\* stamped.
C36_Witness ==
    /\ Returned /\ queue # <<>>
    /\ \A w \in Workers : crashed[w] # "no"
    /\ \E i \in Indices \ PulledIdx : ret.results[i + 1].error = NotProcessed
    /\ \E n \in Range(registry) \ Range(active_accounts) : n \notin last_used

\* ------------------------------------------------------------------ claims on generate
\* generate has returned.
GenDone == gpc = "done"

\* C11: once a poll sample has shown a qualifying image (visible, at least
\* 256 x 256, with a src), the job is in its grace wait or has returned, and what it
\* returns is Success with a non-empty list, never the text-only rejection, also
\* when the turn-complete indicator was visible at the same tick.
C11_ImageSeenResolvesSuccess ==
    qualified_seen # {} =>
        /\ gpc \in {"grace", "done"}
        /\ GenDone => /\ gen_result = Success(image_urls)
                      /\ image_urls # <<>>
                      /\ gen_result.error # TextOnly

\* C11 witness: a job returned Success from a tick that showed both a qualifying
\* image and the turn-complete indicator.
C11_Witness ==
    GenDone /\ ticks > 0 /\ obs.complete /\ obs.qualifying /\ gen_result.success

\* C12: every URL in the list a generator is collecting, and so every URL of a
\* Success result, was shown by some sample (the first or the grace one of
\* ImageGenerator, a tick or the final sweep of FlowImageGenerator) on a visible
\* element whose natural width and height were both at least 256; a URL only
\* ever shown on smaller or hidden elements is never in the list.
C12_OnlyQualifiedUrls ==
    /\ Range(image_urls) \subseteq qualified_seen
    /\ Range(new_image_urls) \subseteq qualified_seen
    /\ (GenDone /\ gen_result.success) => Range(gen_result.image_urls) \subseteq qualified_seen

\* C12 witness: ImageGenerator returned a Success whose list has two URLs.
C12_Witness ==
    GenDone /\ submits = 1 /\ gen_result.success /\ Len(gen_result.image_urls) = 2
            /\ image_urls = gen_result.image_urls

\* C13: the polling loop is bounded by the timeout (every tick started while the
\* elapsed time was below it, so there are at most ceil(timeout_s / 5) ticks, none
\* for a timeout of zero or less); a job that comes back to the loop test with the
\* elapsed time at or past the timeout (it has no image and saw no indicator, or
\* it would not be there) returns the timed-out failure at once; and every job
\* returns.
C13_LoopBoundedThenTimedOut ==
    /\ [](/\ ticks > 0 => (ticks - 1) * poll_interval < timeout_s
          /\ gpc \in {"loop", "sleep", "grace"} => elapsed = ticks * poll_interval)
    /\ [][(gpc = "loop" /\ elapsed >= timeout_s /\ gpc' # gpc) =>
              (gpc' = "done" /\ gen_result' = Failure(TimedOut(timeout_s)))]_vars
    /\ <>GenDone

\* C13 witness: a job that polled twice, saw nothing, and returned timed out.
C13_Witness ==
    /\ GenDone /\ ticks = 2 /\ ~obs.complete /\ ~obs.qualifying
    /\ gen_result = Failure(TimedOut(timeout_s))

\* C14: a poll tick on a reachable page that shows the turn-complete indicator
\* and no qualifying image ends the job at that tick with the text-only failure
\* (not the timed-out one), and a job that has returned takes no further step.
\* The page's text is not an input of the decision: the code never reads it.
C14_IndicatorWithoutImageRejects ==
    /\ []((ticks > 0 /\ obs.alive /\ obs.enumerated /\ obs.complete /\ ~obs.qualifying)
            => (GenDone /\ gen_result = Failure(TextOnly)))
    /\ [][~GenDone]_vars

\* C14 witness: the indicator appeared at the second tick, the first having shown
\* nothing, and the job returned the text-only failure.
C14_Witness ==
    /\ GenDone /\ ticks = 2 /\ obs.complete /\ ~obs.qualifying
    /\ gen_result = Failure(TextOnly) /\ timeout_s > 2 * poll_interval

\* C15: a poll tick that finds the page closed, or whose enumeration of the
\* images fails, ends the job at that tick with the matching session-lost failure,
\* whatever else was pending (the indicator, a skip request), and a job that has
\* returned takes no further step.
C15_UnreachableSessionFailsAtOnce ==
    /\ []((ticks > 0 /\ ~obs.alive) => (GenDone /\ gen_result = Failure(PageClosed)))
    /\ []((ticks > 0 /\ obs.alive /\ ~obs.enumerated)
            => (GenDone /\ gen_result = Failure(LostConnection)))
    /\ [][gpc # "done"]_vars

\* C15 witness: the enumeration failed at a tick where the indicator was visible
\* and a skip had been requested during the sleep.
C15_Witness ==
    /\ GenDone /\ obs.alive /\ ~obs.enumerated /\ obs.complete /\ skip_at = "sleep"
    /\ gen_result = Failure(LostConnection)

\* C16: neither generate (ImageGenerator's, FlowImageGenerator's) is ever left by
\* an exception; an Exception raised by any awaited call (navigation or project
\* setup, overlay update, tool activation, submit, enumeration of the images)
\* ends the job with a returned Failure whose error is the exception's message.
C16_ExceptionsBecomeFailures ==
    /\ gpc # "raised"
    /\ raised # <<>> => (GenDone /\ gen_result = Failure(raised))

\* C16 witness: an exception during polling (after the submit) came back as a
\* Failure carrying its message.
C16_Witness ==
    /\ GenDone /\ raised = <<"Target page, context or browser has been closed">>
    /\ submits = 1 /\ ticks = 1 /\ gen_result.error = raised

\* C17, as claimed: the submit is triggered at most once, exactly once when both
\* preconditions held, never when one failed, and a precondition failure ends the
\* job as a Failure after one navigation and at most one activation.
C17_SubmitOnceIffPreconditions ==
    /\ submits <= 1 /\ navigations <= 1 /\ activations <= 1
    /\ (GenDone /\ preconditions = "held") => submits = 1
    /\ preconditions = "failed" =>
          (GenDone /\ ~gen_result.success /\ submits = 0 /\ navigations = 1)

\* C17, amended: as above, but with both preconditions held the submit is
\* triggered exactly once only if no awaited call raised; a job whose click, fill
\* or key press raised returns a Failure without a submit (and without a retry).
C17_SubmitOnceUnlessRaised ==
    /\ submits <= 1 /\ navigations <= 1 /\ activations <= 1
    /\ (GenDone /\ preconditions = "held" /\ raised = <<>>) => submits = 1
    /\ (GenDone /\ preconditions = "held" /\ submits = 0) =>
          (raised # <<>> /\ gen_result = Failure(raised) /\ ticks = 0)
    /\ preconditions = "failed" =>
          (GenDone /\ ~gen_result.success /\ submits = 0 /\ navigations = 1)

\* C17 witness: both preconditions held and the job, submitted once, succeeded.
C17_Witness ==
    /\ GenDone /\ preconditions = "held" /\ submits = 1 /\ navigations = 1
    /\ activations = 1 /\ gen_result.success

\* C21: liveness is verified first (the navigation), then authentication (the
\* textarea), and only then the tool is activated and the prompt submitted: a job
\* given to a closed session ends in a Failure without reaching the textarea check,
\* a job given to a live but signed-out session ends in a Failure once that check
\* fails, and neither ever activates the tool or submits.
C21_LivenessThenAuthThenSubmit ==
    /\ session = "closed" =>
          /\ gpc \in {"goto", "done"} /\ preconditions = "pending"
          /\ GenDone => gen_result = Failure(raised) /\ raised # <<>>
    /\ session = "signed_out" =>
          /\ gpc \in {"goto", "textarea", "done"}
          /\ GenDone => ~gen_result.success
          /\ (GenDone /\ raised = <<>>) => gen_result = Failure(TextareaNotFound)
    /\ session # "ok" => (activations = 0 /\ submits = 0 /\ ticks = 0)
    /\ gpc \in {"activate", "submit"} \/ activations > 0 \/ submits > 0 =>
          (session = "ok" /\ navigations = 1)
    /\ submits > 0 => (activations = 1 /\ preconditions = "held")

\* C21 witness: a job given to a live, signed-out session has returned the
\* textarea failure after its one navigation.
C21_Witness ==
    /\ GenDone /\ session = "signed_out" /\ navigations = 1
    /\ gen_result = Failure(TextareaNotFound) /\ activations = 0 /\ submits = 0

\* C25: the first tick that shows a qualifying image, and no tick before it, sends
\* the job into one grace wait with one re-sample, after which it returns: the
\* list returned is the qualifying URLs of that tick in first-seen order, then
\* those of the re-sample that are new, no URL twice.
C25_GraceResampleThenFrozen ==
    /\ grace_waits <= 1
    /\ gpc \in {"loop", "sleep"} => (qualified_seen = {} /\ trigger = <<>>)
    /\ gpc = "grace" =>
          /\ grace_waits = 0 /\ trigger # <<>> /\ resample = <<>>
          /\ image_urls = trigger
    /\ grace_waits = 1 =>
          /\ GenDone /\ trigger # <<>>
          /\ gen_result = Success(FirstSeen(trigger \o resample))
          /\ SubSeq(gen_result.image_urls, 1, Len(trigger)) = trigger
          /\ \A j, k \in DOMAIN gen_result.image_urls :
                gen_result.image_urls[j] = gen_result.image_urls[k] => j = k
    /\ (GenDone /\ gen_result.success /\ submits = 1 /\ navigations = 1) => grace_waits = 1

\* C25 witness: the tick showed u2, the re-sample showed u2 again and then u1;
\* the list returned is u2, u1.
C25_Witness ==
    /\ GenDone /\ trigger = <<"u2">> /\ resample = <<"u2", "u1">>
    /\ gen_result = Success(<<"u2", "u1">>)

\* C31: as claimed, every result ImageGenerator.generate returns is well-formed:
\* success holds exactly when image_urls is non-empty and error is None, and every
\* Failure has a non-empty error text and an empty image_urls.
NonEmptyText(msg) == \E k \in DOMAIN msg : msg[k] # ""

C31_ResultsWellFormed ==
    (images_per_prompt = 0 /\ GenDone) =>
        /\ gen_result.success <=> (gen_result.image_urls # <<>> /\ gen_result.error = NoError)
        /\ ~gen_result.success =>
              (NonEmptyText(gen_result.error) /\ gen_result.image_urls = <<>>)

\* C32: as claimed, an outcome of run_parallel's results with success true has at
\* least one entry in images, and one with success false has no images and a
\* non-empty error.
C32_OutcomeWellFormed ==
    gpc = "recorded" =>
        /\ OutcomeEntry(job_pr).success => OutcomeEntry(job_pr).images # <<>>
        /\ ~OutcomeEntry(job_pr).success =>
              /\ OutcomeEntry(job_pr).images = <<>>
              /\ NonEmptyText(OutcomeEntry(job_pr).error)

\* C34: as claimed, ImageGenerator.generate samples the page only while the
\* elapsed polling time is at most the timeout, whatever the timeout (a multiple of
\* the poll interval or not), and a timeout of zero or less gives the timed-out
\* Failure with no sample taken.
C34_NoSampleAfterTimeout ==
    images_per_prompt = 0 =>
        /\ (ticks > 0 /\ obs.alive /\ obs.enumerated) => elapsed <= timeout_s
        /\ (GenDone /\ (gen_result.success \/ gen_result.error = TextOnly)) =>
              elapsed <= timeout_s
        /\ timeout_s <= 0 =>
              /\ ticks = 0
              /\ (GenDone /\ submits > 0 /\ raised = <<>>) =>
                    gen_result = Failure(TimedOut(timeout_s))

\* C35: once ImageGenerator.generate is in its grace wait (a sample has given it
\* at least one image), the step that ends the wait returns Success, whatever
\* happens to the session during the wait or the re-sample: the list returned
\* begins with the images held before, and when the enumeration of the re-sample
\* fails it is exactly that list.
C35_GraceFailureKeepsSuccess ==
    /\ [][(gpc = "grace" /\ gpc' # "grace") =>
            /\ GenDone' /\ gen_result'.success
            /\ image_urls # <<>>
            /\ SubSeq(gen_result'.image_urls, 1, Len(image_urls)) = image_urls
            /\ resample_lost' => gen_result' = Success(image_urls)]_vars
    /\ [](resample_lost => (GenDone /\ gen_result.success /\ gen_result.image_urls = trigger))

\* The enumeration of the re-sample failed and the job returned the image it had.
C35_Witness ==
    /\ GenDone /\ resample_lost /\ grace_waits = 1
    /\ gen_result = Success(<<"u1">>) /\ trigger = <<"u1">>

\* ------------------------------------------------------------------ claims on the Flow generate
\* C28: as claimed, no image that FlowImageGenerator.generate has collected or
\* returns has a URL (query stripped) that the page showed at any moment up to the
\* click on Create.
C28_OnlyImagesNewSinceSubmit ==
    images_per_prompt > 0 =>
        /\ \A k \in DOMAIN new_image_urls :
              BaseUrl(new_image_urls[k]) \notin shown_before_submit
        /\ (GenDone /\ gen_result.success) =>
              \A k \in DOMAIN gen_result.image_urls :
                  BaseUrl(gen_result.image_urls[k]) \notin shown_before_submit

\* C29: FlowImageGenerator.generate polls until images_per_prompt images are
\* collected or the timeout is reached.  The final sweep is entered only with
\* images_per_prompt images or more, the loop goes on while the time is not up and
\* fewer are collected, and a Success with fewer than images_per_prompt images is
\* returned only when the time is up.  When the loop ends by the time, one image or
\* more give Success with the images collected; none give the Failure of the
\* rejection when the detector found one and the timed-out Failure otherwise.
C29_AtTimeout ==
    IF new_image_urls # <<>> THEN Success(new_image_urls)
    ELSE IF page_text'.readable /\ page_text'.first_5000 THEN Failure(<<ContentRejection>>)
    ELSE Failure(TimedOut(timeout_s))

C30_ProjectSetUpOnce ==
    /\ [](images_per_prompt > 0 =>
            /\ (prev_setup = "ok" /\ gpc # "done") => (project_initialized /\ navigations = 0)
            /\ (prev_setup = "failed" /\ gpc = "f_project") => ~project_initialized
            /\ (GenDone /\ ~project_initialized) =>
                  (~gen_result.success /\ submits = 0))
    /\ [][images_per_prompt > 0 =>
            /\ project_initialized => project_initialized'
            /\ (gpc = "f_project" /\ project_initialized) =>
                  (gpc' = "f_reference" /\ navigations' = navigations)
            /\ (gpc = "f_project" /\ ~project_initialized) =>
                  /\ navigations' = navigations + 1
                  /\ ~project_initialized' => (GenDone' /\ ~gen_result'.success /\ submits' = 0)]_vars

\* The job before this one failed in the setup; this one has set the project up
\* and returned images.
C30_Witness ==
    /\ images_per_prompt > 0 /\ prev_setup = "failed" /\ project_initialized
    /\ navigations = 1 /\ GenDone /\ gen_result.success

\* ------------------------------------------------------------------ claims on the TUI queue
\* C37: as claimed, in the MainScreen queue a Pending item is never left with no
\* generation worker under way: whenever an item is Pending, a worker that has not
\* been cancelled exists (so that, the workers going on, every Pending item is
\* processed in the end without the user doing anything more).
C37_PendingNeverStranded ==
    (\E k \in DOMAIN ui_queue : ui_queue[k].status = "Pending") =>
        (\E w \in ui_workers : ~w.cancelled)

C20_SkipNeverEndsInSuccess ==
    (GenDone /\ skip_at # "never") => ~gen_result.success

====
